---- MODULE Spec2Model ----
(***************************************************************************)
(* Declarative command/event registration (reflect-metadata decorators),   *)
(* BaseCommand / BaseEvent construction, BaseCommand.canExecute with the    *)
(* per-user cooldown map and its removal timers, and the interaction        *)
(* dispatcher InteractionCreateEvent.handleCommand.                         *)
(*                                                                          *)
(* SpecReg      : class definition time (decorators) and construction.      *)
(* SpecDispatch : run time (invocations, replies, clock, timers), against   *)
(*                every guard configuration.                                *)
(* SpecCooldown : run time with no guard flag set: repeated invocations,    *)
(*                the cooldown map and its timers.                          *)
(* SpecBoundary : cooldowns of whole seconds, instants around the expiry.   *)
(* SpecRace     : overlapping invocations of one command.                   *)
(* SpecPermissions : commands annotated with @RequirePermissions.           *)
(* SpecFailures : known and unknown commands whose replies may fail.        *)
(***************************************************************************)
EXTENDS Integers, Sequences, FiniteSets, TLC

\* ------------------------------------------------------------------------
\* Bounds
\* ------------------------------------------------------------------------
MaxAttach == 3        \* decorator applications explored in one run
MaxPermLen == 3       \* longest permissions array explored
MaxInstances == 2     \* command and event instances constructed in one run
MaxInvocations == 2   \* interactions delivered in one run
MaxGuarded == 1       \* interactions delivered in one run when every guard set is explored
MaxInflight == 1      \* interactions being handled at the same time
MaxConcurrent == 2    \* interactions being handled at the same time when overlap is explored
MaxTime == 2          \* last clock value explored (Date.now(), in ms)
MaxExecReplies == 1   \* replies a command's execute() sends before it ends
CooldownMs == 2       \* the duration given to @Cooldown on the commands dispatched
MaxClock == 2501      \* last clock value explored when durations are whole seconds
MaxDeclare == 2       \* calls of registerGlobalCommands in one run
MaxDispatch == 1      \* interactions delivered while the lifecycle is explored
MaxPermissionCalls == 2 \* calls that write the PermissionManager in one run
MaxReloads == 2       \* calls of reloadCommand in one run

\* ------------------------------------------------------------------------
\* Classes and decorator arguments
\* ------------------------------------------------------------------------
NoClass == "none"
Classes == {"K1", "K2"}

\* The class hierarchies explored: K2 is declared either `class K2 extends K1`
\* or, like K1, as a direct subclass of the base class.
Hierarchies == {[c \in Classes |-> NoClass],
                [c \in Classes |-> IF c = "K2" THEN "K1" ELSE NoClass]}

CommandArgs == {<<"ping", "d1">>, <<"ban", "d2">>}
EventArgs == {<<"ready", TRUE>>, <<"interactionCreate", FALSE>>}
PermArgs == {<<"A">>, <<"B">>}
CooldownArgs == {0, 2}
Flags == {"guildOnly", "dmOnly", "ownerOnly", "nsfw"}

\* A GuardOptions object; an absent (undefined) flag is FALSE.
EmptyGuards ==
    [permissions |-> <<>>, hasPermissions |-> FALSE,
     guildOnly |-> FALSE, dmOnly |-> FALSE, ownerOnly |-> FALSE, nsfw |-> FALSE]

VARIABLES
    superclass,   \* class -> the class it extends, or NoClass (fixed by the declarations)
    defined,      \* class -> its declaration (with its decorators) has been evaluated
    declaring,    \* the class whose declaration is being evaluated, or NoClass
    attachCount,  \* decorator applications so far
    cmdOwn,       \* class -> <<>> or <<metadata object>> : own COMMAND_METADATA_KEY entry
    guardRef,     \* class -> NoClass or the id of the GuardOptions object it owns
    guardHeap,    \* object id -> GuardOptions object (id = class that allocated it)
    cooldownOwn,  \* class -> <<>> or <<ms>> : own COOLDOWN_METADATA_KEY entry
    eventOwn,     \* class -> <<>> or <<[name, once]>> : own EVENT_METADATA_KEY entry
    instances,    \* sequence of constructed BaseCommand instances
    eventInstances, \* sequence of constructed BaseEvent instances
    lastNew,      \* outcome of the last `new` : [kind, cls, threw]
    hCmd,         \* history: class -> the [name, description] of its @Command calls, in order
    hCooldown,    \* history: class -> the ms of its @Cooldown calls, in order
    hEvent,       \* history: class -> the [name, once] of its @Event calls, in order
    hPerms,       \* history: class -> P1 \o ... \o Pn of its @RequirePermissions calls
    hFlags        \* history: class -> flags attached to it

regVars == <<superclass, defined, declaring, attachCount, cmdOwn, guardRef, guardHeap, cooldownOwn, eventOwn,
             instances, eventInstances, lastNew, hCmd, hCooldown, hEvent, hPerms, hFlags>>

VARIABLES
    now,          \* Date.now()
    ownerId,      \* client.config.get('ownerId'): a user id, or NoUser when not configured
    memberPerms,  \* user -> the permissions the user holds where the interaction is made
    commands,     \* client.commands: name -> [guards, cooldownMs, permissions] of the instance
    cooldowns,    \* name -> (user -> <<>> or <<expiry>>) : the instance's cooldowns Map
    timers,       \* pending setTimeout callbacks: set of [id, cmd, user, due]
    inv,          \* slot -> the interaction being handled there and how far its handler is
    done,         \* the interaction whose handler settled last, as it was when it settled
    arrivals,     \* interactions delivered so far
    allowedAt     \* history: name -> (user -> the last two times canExecute allowed)

dispVars == <<now, ownerId, memberPerms, commands, cooldowns, timers, inv, done, arrivals, allowedAt>>

VARIABLES
    plan,           \* module -> [commands, events] : the classes its initialize() constructs, in order
    hasShutdown,    \* module -> it defines shutdown()
    bootPc,         \* where bootstrap() is: "database", "initialize", "register", "connect",
                    \* "connecting", "health", "running", "failed"
    bootModule,     \* index in ModuleOrder of the module bootstrap() is at
    bootError,      \* what made bootstrap() fail: "none", "database", "definition", "connect", "health"
    exitCode,       \* <<>> while the process runs, else <<code>> of process.exit(code)
    clientCommands, \* client.commands in Map order: sequence of [name, cls, metadata, id]
    clientEvents,   \* client.events in Map order: sequence of [name, cls]
    listeners,      \* listeners attached with on/once: sequence of [name, once, cls]
    clientModules,  \* client.modules in Map order: sequence of module names
    metaOptions,    \* class -> <<>> or <<options>> : the options field of its command metadata object
    connected,      \* the gateway connection is open
    declared,       \* the calls of bulkEditGlobalCommands: sequence of [list, table]
    dispatched,     \* interactions delivered to the interactionCreate listeners
    shutdownPc,     \* where shutdown(signal) is: "idle", "module", "closing", "done"
    cursor,         \* position of the for-of loop of client.shutdown() in client.modules
    shutdownCalls,  \* the module.shutdown() calls: sequence of [module, outcome]
    disconnects,    \* calls of this.disconnect(false)
    hRegistered,    \* history: the registerCommand calls, in order
    hModulesAtSignal \* history: client.modules when client.shutdown() was called

lifeVars == <<plan, hasShutdown, bootPc, bootModule, bootError, exitCode, clientCommands,
              clientEvents, listeners, clientModules, metaOptions, connected, declared,
              dispatched, shutdownPc, cursor, shutdownCalls, disconnects, hRegistered,
              hModulesAtSignal>>

VARIABLES
    handlerCommands,  \* CommandHandler.commands: name -> <<>> or <<the BaseCommand instance>>
    userPermissions,  \* PermissionManager.userPermissions: user -> (scope -> <<>> or <<record>>)
    reloading,        \* name -> <<>> or <<the instance removed>> : reloadCommand awaiting its import
    lastReload,       \* the reloadCommand call that returned last: [name, result, before]
    reloadCalls,      \* calls of reloadCommand so far
    permissionCalls,  \* calls that wrote the PermissionManager so far
    executedAt,       \* history: name -> (user -> the last two times execute() was called)
    lastLegacy,       \* the interaction the legacy handler handled last: [name, user, guild, outcome]
    legacyArrivals    \* interactions delivered to the legacy handler so far

legacyVars == <<handlerCommands, userPermissions, reloading, lastReload, reloadCalls,
                permissionCalls, executedAt, lastLegacy, legacyArrivals>>

sysVars == <<lifeVars, legacyVars>>

vars == <<regVars, dispVars, sysVars>>

\* ------------------------------------------------------------------------
\* Reflect.getMetadata: own entry, else the prototype chain
\* ------------------------------------------------------------------------
ParentOf(c) == superclass[c]

\* Mutant: the parent's entry shadows the class's own entry.
CmdOwner_ParentFirst(c) ==
    IF c = NoClass THEN NoClass
    ELSE IF ParentOf(c) # NoClass /\ cmdOwn[ParentOf(c)] # <<>> THEN ParentOf(c)
    ELSE IF cmdOwn[c] # <<>> THEN c
    ELSE NoClass

RECURSIVE CmdOwner(_)
CmdOwner(c) ==
    IF c = NoClass THEN NoClass
    ELSE IF cmdOwn[c] # <<>> THEN c
    ELSE CmdOwner(ParentOf(c))

RECURSIVE GuardObj(_)
GuardObj(c) ==
    IF c = NoClass THEN NoClass
    ELSE IF guardRef[c] # NoClass THEN guardRef[c]
    ELSE GuardObj(ParentOf(c))

RECURSIVE CooldownOwner(_)
CooldownOwner(c) ==
    IF c = NoClass THEN NoClass
    ELSE IF cooldownOwn[c] # <<>> THEN c
    ELSE CooldownOwner(ParentOf(c))

RECURSIVE EventOwner(_)
EventOwner(c) ==
    IF c = NoClass THEN NoClass
    ELSE IF eventOwn[c] # <<>> THEN c
    ELSE EventOwner(ParentOf(c))

\* getCommandMetadata(target): <<>> is undefined
getCommandMetadata(c) == IF CmdOwner(c) = NoClass THEN <<>> ELSE cmdOwn[CmdOwner(c)]

\* getGuardsMetadata(target): <<>> is undefined
getGuardsMetadata(c) == IF GuardObj(c) = NoClass THEN <<>> ELSE <<guardHeap[GuardObj(c)]>>

\* getCooldownMetadata(target): <<>> is undefined
getCooldownMetadata(c) ==
    IF CooldownOwner(c) = NoClass THEN <<>> ELSE cooldownOwn[CooldownOwner(c)]

\* getEventMetadata(target): <<>> is undefined
getEventMetadata(c) == IF EventOwner(c) = NoClass THEN <<>> ELSE eventOwn[EventOwner(c)]

\* ------------------------------------------------------------------------
\* Init
\* ------------------------------------------------------------------------
InitRegistry ==
    /\ superclass \in Hierarchies
    /\ defined = [c \in Classes |-> FALSE]
    /\ declaring = NoClass
    /\ attachCount = 0
    /\ cmdOwn = [c \in Classes |-> <<>>]
    /\ guardRef = [c \in Classes |-> NoClass]
    /\ guardHeap = [c \in Classes |-> EmptyGuards]
    /\ cooldownOwn = [c \in Classes |-> <<>>]
    /\ eventOwn = [c \in Classes |-> <<>>]
    /\ instances = <<>>
    /\ eventInstances = <<>>
    /\ lastNew = [kind |-> "none", cls |-> NoClass, threw |-> FALSE]
    /\ hCmd = [c \in Classes |-> <<>>]
    /\ hCooldown = [c \in Classes |-> <<>>]
    /\ hEvent = [c \in Classes |-> <<>>]
    /\ hPerms = [c \in Classes |-> <<>>]
    /\ hFlags = [c \in Classes |-> {}]

\* ------------------------------------------------------------------------
\* Class definition time: class declarations are evaluated one at a time, a
\* subclass after its parent, and the decorators of a class run while its
\* declaration is being evaluated.
\* ------------------------------------------------------------------------
\* `@...  class <c> extends ...` starts being evaluated
BeginClass(c) ==
    /\ declaring = NoClass
    /\ ~defined[c]
    /\ ParentOf(c) # NoClass => defined[ParentOf(c)]
    /\ declaring' = c
    /\ UNCHANGED <<superclass, defined, attachCount, cmdOwn, guardRef, guardHeap, cooldownOwn,
                   eventOwn, instances, eventInstances, lastNew, hCmd, hCooldown, hEvent,
                   hPerms, hFlags>>
    /\ UNCHANGED <<dispVars, sysVars>>

CanDecorate(c) ==
    /\ declaring = c
    /\ attachCount < MaxAttach

\* @Command(name, description)
Command(c, name, description) ==
    /\ CanDecorate(c)
    /\ cmdOwn' = [cmdOwn EXCEPT ![c] =
                    <<[name |-> name, description |-> description,
                       guildOnly |-> FALSE, ownerOnly |-> FALSE, nsfw |-> FALSE]>>]
    /\ hCmd' = [hCmd EXCEPT ![c] = Append(@, [name |-> name, description |-> description])]
    /\ attachCount' = attachCount + 1
    /\ UNCHANGED <<superclass, defined, declaring, guardRef, guardHeap, cooldownOwn, eventOwn, instances,
                   eventInstances, lastNew, hCooldown, hEvent, hPerms, hFlags>>
    /\ UNCHANGED <<dispVars, sysVars>>

\* @Event(name, once)
Event(c, name, once) ==
    /\ CanDecorate(c)
    /\ eventOwn' = [eventOwn EXCEPT ![c] = <<[name |-> name, once |-> once]>>]
    /\ hEvent' = [hEvent EXCEPT ![c] = Append(@, [name |-> name, once |-> once])]
    /\ attachCount' = attachCount + 1
    /\ UNCHANGED <<superclass, defined, declaring, cmdOwn, guardRef, guardHeap, cooldownOwn, instances,
                   eventInstances, lastNew, hCmd, hCooldown, hPerms, hFlags>>
    /\ UNCHANGED <<dispVars, sysVars>>

\* Mutant: a second @Cooldown adds to the stored duration.
Cooldown_Accumulates(c, milliseconds) ==
    /\ CanDecorate(c)
    /\ cooldownOwn' = [cooldownOwn EXCEPT ![c] =
                          IF @ = <<>> THEN <<milliseconds>> ELSE <<@[1] + milliseconds>>]
    /\ hCooldown' = [hCooldown EXCEPT ![c] = Append(@, milliseconds)]
    /\ attachCount' = attachCount + 1
    /\ UNCHANGED <<superclass, defined, declaring, cmdOwn, guardRef, guardHeap, eventOwn, instances,
                   eventInstances, lastNew, hCmd, hEvent, hPerms, hFlags>>
    /\ UNCHANGED <<dispVars, sysVars>>

\* @Cooldown(milliseconds)
Cooldown(c, milliseconds) ==
    /\ CanDecorate(c)
    /\ cooldownOwn' = [cooldownOwn EXCEPT ![c] = <<milliseconds>>]
    /\ hCooldown' = [hCooldown EXCEPT ![c] = Append(@, milliseconds)]
    /\ attachCount' = attachCount + 1
    /\ UNCHANGED <<superclass, defined, declaring, cmdOwn, guardRef, guardHeap, eventOwn, instances,
                   eventInstances, lastNew, hCmd, hEvent, hPerms, hFlags>>
    /\ UNCHANGED <<dispVars, sysVars>>

\* `Reflect.getMetadata(GUARDS_METADATA_KEY, target) || {}` : the object found on
\* the class or on an ancestor, else a fresh one (allocated under the class's id).
ExistingGuardsId(c) == IF GuardObj(c) = NoClass THEN c ELSE GuardObj(c)

ExistingGuards(c) == IF GuardObj(c) = NoClass THEN EmptyGuards ELSE guardHeap[GuardObj(c)]

\* existingGuards.permissions = [...(existingGuards.permissions || []), ...permissions]
WithPermissions(g, permissions) ==
    [g EXCEPT !.permissions = g.permissions \o permissions, !.hasPermissions = TRUE]

\* Mutant: the flag is set on a fresh object instead of the existing one.
WithFlag_Fresh(g, flag) ==
    CASE flag = "guildOnly" -> [EmptyGuards EXCEPT !.guildOnly = TRUE]
      [] flag = "dmOnly"    -> [EmptyGuards EXCEPT !.dmOnly = TRUE]
      [] flag = "ownerOnly" -> [EmptyGuards EXCEPT !.ownerOnly = TRUE]
      [] flag = "nsfw"      -> [EmptyGuards EXCEPT !.nsfw = TRUE]

\* existingGuards.<flag> = true
WithFlag(g, flag) ==
    CASE flag = "guildOnly" -> [g EXCEPT !.guildOnly = TRUE]
      [] flag = "dmOnly"    -> [g EXCEPT !.dmOnly = TRUE]
      [] flag = "ownerOnly" -> [g EXCEPT !.ownerOnly = TRUE]
      [] flag = "nsfw"      -> [g EXCEPT !.nsfw = TRUE]

\* @RequirePermissions(...permissions)
RequirePermissions(c, permissions) ==
    /\ CanDecorate(c)
    /\ Len(ExistingGuards(c).permissions) + Len(permissions) <= MaxPermLen
    /\ guardHeap' = [guardHeap EXCEPT ![ExistingGuardsId(c)] =
                        WithPermissions(ExistingGuards(c), permissions)]
    /\ guardRef' = [guardRef EXCEPT ![c] = ExistingGuardsId(c)]
    /\ hPerms' = [hPerms EXCEPT ![c] = @ \o permissions]
    /\ attachCount' = attachCount + 1
    /\ UNCHANGED <<superclass, defined, declaring, cmdOwn, cooldownOwn, eventOwn, instances, eventInstances,
                   lastNew, hCmd, hCooldown, hEvent, hFlags>>
    /\ UNCHANGED <<dispVars, sysVars>>

\* @GuildOnly(), @DMOnly(), @OwnerOnly(), @NSFW()
AttachFlag(c, flag) ==
    /\ CanDecorate(c)
    /\ guardHeap' = [guardHeap EXCEPT ![ExistingGuardsId(c)] =
                        WithFlag(ExistingGuards(c), flag)]
    /\ guardRef' = [guardRef EXCEPT ![c] = ExistingGuardsId(c)]
    /\ hFlags' = [hFlags EXCEPT ![c] = @ \cup {flag}]
    /\ attachCount' = attachCount + 1
    /\ UNCHANGED <<superclass, defined, declaring, cmdOwn, cooldownOwn, eventOwn, instances, eventInstances,
                   lastNew, hCmd, hCooldown, hEvent, hPerms>>
    /\ UNCHANGED <<dispVars, sysVars>>

\* The class declaration has been evaluated: no more decorators run on it.
ClassDeclared(c) ==
    /\ declaring = c
    /\ defined' = [defined EXCEPT ![c] = TRUE]
    /\ declaring' = NoClass
    /\ UNCHANGED <<superclass, attachCount, cmdOwn, guardRef, guardHeap, cooldownOwn, eventOwn,
                   instances, eventInstances, lastNew, hCmd, hCooldown, hEvent, hPerms,
                   hFlags>>
    /\ UNCHANGED <<dispVars, sysVars>>

\* ------------------------------------------------------------------------
\* Construction
\* ------------------------------------------------------------------------
\* this.metadata.<f> = this.guards.<f> ?? this.metadata.<f>   (constructor, lines 32-37)
MergeGuards(m, g) ==
    [m EXCEPT !.guildOnly = g.guildOnly \/ m.guildOnly,
              !.ownerOnly = g.ownerOnly \/ m.ownerOnly,
              !.nsfw = g.nsfw \/ m.nsfw]

\* new <c>(client) for a class extending BaseCommand
NewCommand(c) ==
    /\ defined[c]
    /\ declaring = NoClass
    /\ Len(instances) + Len(eventInstances) < MaxInstances
    /\ IF getCommandMetadata(c) = <<>>
       THEN /\ lastNew' = [kind |-> "command", cls |-> c, threw |-> TRUE]
            /\ UNCHANGED <<cmdOwn, instances>>
       ELSE /\ lastNew' = [kind |-> "command", cls |-> c, threw |-> FALSE]
            /\ instances' = Append(instances,
                   [cls |-> c,
                    metadata |-> CmdOwner(c),
                    guards |-> GuardObj(c),
                    cooldownMs |-> getCooldownMetadata(c),
                    permissions |-> IF GuardObj(c) # NoClass
                                       /\ guardHeap[GuardObj(c)].hasPermissions
                                    THEN <<guardHeap[GuardObj(c)].permissions>>
                                    ELSE <<>>])
            /\ cmdOwn' = IF GuardObj(c) = NoClass THEN cmdOwn
                         ELSE [cmdOwn EXCEPT ![CmdOwner(c)] =
                                  <<MergeGuards(cmdOwn[CmdOwner(c)][1],
                                                guardHeap[GuardObj(c)])>>]
    /\ UNCHANGED <<superclass, defined, declaring, attachCount, guardRef, guardHeap, cooldownOwn, eventOwn,
                   eventInstances, hCmd, hCooldown, hEvent, hPerms, hFlags>>
    /\ UNCHANGED <<dispVars, sysVars>>

\* new <c>(client) for a class extending BaseEvent
NewEvent(c) ==
    /\ defined[c]
    /\ declaring = NoClass
    /\ Len(instances) + Len(eventInstances) < MaxInstances
    /\ IF getEventMetadata(c) = <<>>
       THEN /\ lastNew' = [kind |-> "event", cls |-> c, threw |-> TRUE]
            /\ UNCHANGED eventInstances
       ELSE /\ lastNew' = [kind |-> "event", cls |-> c, threw |-> FALSE]
            /\ eventInstances' = Append(eventInstances,
                   [cls |-> c, metadata |-> getEventMetadata(c)[1]])
    /\ UNCHANGED <<superclass, defined, declaring, attachCount, cmdOwn, guardRef, guardHeap, cooldownOwn,
                   eventOwn, instances, hCmd, hCooldown, hEvent, hPerms, hFlags>>
    /\ UNCHANGED <<dispVars, sysVars>>

\* The metadata an instance exposes (this.metadata is a reference to the object
\* stored in the registry).
MetadataOf(inst) == cmdOwn[inst.metadata][1]

RegStep ==
    \/ \E c \in Classes : BeginClass(c)
    \/ \E c \in Classes, a \in CommandArgs : Command(c, a[1], a[2])
    \/ \E c \in Classes, a \in EventArgs : Event(c, a[1], a[2])
    \/ \E c \in Classes, ms \in CooldownArgs : Cooldown(c, ms)
    \/ \E c \in Classes, ps \in PermArgs : RequirePermissions(c, ps)
    \/ \E c \in Classes, f \in Flags : AttachFlag(c, f)
    \/ \E c \in Classes : ClassDeclared(c)
    \/ \E c \in Classes : NewCommand(c)
    \/ \E c \in Classes : NewEvent(c)

\* ------------------------------------------------------------------------
\* Run time: interactions, replies, the clock and the cooldown timers
\* ------------------------------------------------------------------------
NoUser == "nobody"
Users == {"u1", "u2"}
CommandNames == {"ping", "ban"}
InteractionNames == {"ping", "nope"}   \* "nope" is not in client.commands
Slots == 1..MaxConcurrent

\* The flags of this.guards that canExecute reads.
GuardSets == [ownerOnly : BOOLEAN, guildOnly : BOOLEAN, dmOnly : BOOLEAN]

NoGuards == [ownerOnly |-> FALSE, guildOnly |-> FALSE, dmOnly |-> FALSE]

IdleInvocation ==
    [pc |-> "idle", name |-> "nope", user |-> NoUser, guild |-> FALSE,
     resolved |-> FALSE,       \* client.commands.get(name) found an instance
     canExecute |-> "none",    \* none (not called) / pending / true / false / threw
     denial |-> "none",        \* which guard denied: owner / guild / dm / cooldown
     denials |-> 0,            \* denial messages canExecute has issued
     timeLeft |-> 0,           \* the seconds named in the cooldown denial
     executeCalls |-> 0,       \* calls of command.execute()
     execReplies |-> 0,        \* replies issued inside execute()
     executeFailed |-> FALSE,  \* execute() threw or rejected
     acknowledged |-> FALSE,   \* interaction.acknowledged
     notFound |-> 0,           \* "Command not found" replies issued
     notices |-> 0,            \* generic failure notices issued
     noticeVia |-> "none",     \* create (createMessage) / edit (editOriginal)
     failed |-> 0,             \* outbound reply calls of this invocation that failed
     afterFailure |-> 0,       \* outbound reply calls issued after one had failed
     outcome |-> "running",    \* running / returned / threw (handleCommand's promise)
     listener |-> "running"]   \* running / returned / threw (the registered listener)

\* Some channel lets the user through the three flag guards (lines 43-65).
PassesFlagGuards(guards, owner, user) ==
    /\ guards.ownerOnly => user = owner
    /\ ~(guards.guildOnly /\ guards.dmOnly)

\* The run starts at time 0 either with empty cooldown maps, or just after
\* canExecute allowed one user w on "ping" (lines 80-81 have run: the entry is
\* set and its removal timer is pending) and that invocation has ended.
\* "ping" carries one of the given guard sets, @Cooldown durations and
\* @RequirePermissions lists; the users hold one of the given permission sets.
DispatchStart(owners, guardSets, durations, required, holdings) ==
    /\ now = 0
    /\ ownerId \in owners
    /\ memberPerms \in holdings
    /\ commands \in {[n \in CommandNames |->
                        IF n = "ping"
                        THEN [guards |-> g, cooldownMs |-> ms, permissions |-> ps]
                        ELSE [guards |-> NoGuards, cooldownMs |-> CooldownMs,
                              permissions |-> <<>>]] :
                     g \in guardSets, ms \in durations, ps \in required}
    /\ \E w \in Users \cup {NoUser} :
          /\ w # NoUser =>
                /\ commands["ping"].cooldownMs # 0
                /\ PassesFlagGuards(commands["ping"].guards, ownerId, w)
          /\ cooldowns = [n \in CommandNames |-> [u \in Users |->
                             IF n = "ping" /\ u = w
                             THEN <<commands["ping"].cooldownMs>> ELSE <<>>]]
          /\ timers = IF w = NoUser THEN {}
                      ELSE {[id |-> 0, cmd |-> "ping", user |-> w,
                             due |-> commands["ping"].cooldownMs]}
          /\ allowedAt = [n \in CommandNames |-> [u \in Users |->
                             IF n = "ping" /\ u = w THEN <<0>> ELSE <<>>]]
    /\ inv = [s \in Slots |-> IdleInvocation]
    /\ done = IdleInvocation
    /\ arrivals = 0

\* No command requires a permission and no user holds one.
NoHoldings == {[u \in Users |-> {}]}

InitDispatch == DispatchStart({"u1", NoUser}, GuardSets, {0, CooldownMs}, {<<>>}, NoHoldings)

\* The run-time variables while only class definitions are explored.
DispatchAtRest ==
    /\ now = 0
    /\ ownerId = NoUser
    /\ memberPerms = [u \in Users |-> {}]
    /\ commands = [n \in CommandNames |->
                     [guards |-> NoGuards, cooldownMs |-> 0, permissions |-> <<>>]]
    /\ cooldowns = [n \in CommandNames |-> [u \in Users |-> <<>>]]
    /\ timers = {}
    /\ inv = [s \in Slots |-> IdleInvocation]
    /\ done = IdleInvocation
    /\ arrivals = 0
    /\ allowedAt = [n \in CommandNames |-> [u \in Users |-> <<>>]]

\* Math.ceil(a / b) for a >= 0, b > 0
Ceil(a, b) == (a + b - 1) \div b

\* Mutant: the guildOnly guard is evaluated before the ownerOnly guard.
GuardDecision_GuildFirst(cmd, user, guild) ==
    IF commands[cmd].guards.guildOnly /\ ~guild THEN "guild"
    ELSE IF commands[cmd].guards.ownerOnly /\ user # ownerId THEN "owner"
    ELSE IF commands[cmd].guards.dmOnly /\ guild THEN "dm"
    ELSE IF commands[cmd].cooldownMs # 0
            /\ cooldowns[cmd][user] # <<>>
            /\ now < cooldowns[cmd][user][1] THEN "cooldown"
    ELSE "allow"

\* Mutant: the cooldown guard still denies at the instant of expiry.
GuardDecision_Inclusive(cmd, user, guild) ==
    IF commands[cmd].guards.ownerOnly /\ user # ownerId THEN "owner"
    ELSE IF commands[cmd].guards.guildOnly /\ ~guild THEN "guild"
    ELSE IF commands[cmd].guards.dmOnly /\ guild THEN "dm"
    ELSE IF commands[cmd].cooldownMs # 0
            /\ cooldowns[cmd][user] # <<>>
            /\ now <= cooldowns[cmd][user][1] THEN "cooldown"
    ELSE "allow"

\* Mutant: with no owner configured the ownerOnly guard lets everyone through.
GuardDecision_OwnerUnsetAllows(cmd, user, guild) ==
    IF commands[cmd].guards.ownerOnly /\ ownerId # NoUser /\ user # ownerId THEN "owner"
    ELSE IF commands[cmd].guards.guildOnly /\ ~guild THEN "guild"
    ELSE IF commands[cmd].guards.dmOnly /\ guild THEN "dm"
    ELSE IF commands[cmd].cooldownMs # 0
            /\ cooldowns[cmd][user] # <<>>
            /\ now < cooldowns[cmd][user][1] THEN "cooldown"
    ELSE "allow"

\* The guard canExecute stops at, or "allow": lines 43-85, in source order.
GuardDecision(cmd, user, guild) ==
    IF commands[cmd].guards.ownerOnly /\ user # ownerId THEN "owner"
    ELSE IF commands[cmd].guards.guildOnly /\ ~guild THEN "guild"
    ELSE IF commands[cmd].guards.dmOnly /\ guild THEN "dm"
    ELSE IF commands[cmd].cooldownMs # 0
            /\ cooldowns[cmd][user] # <<>>
            /\ now < cooldowns[cmd][user][1] THEN "cooldown"
    ELSE "allow"

\* Whether an allowed call of canExecute writes the cooldown entry (line 67).
StartsCooldown(cmd) == commands[cmd].cooldownMs # 0

\* Mutant: the cooldown guard returns false without sending its message.
Denied_Silent(r, decision) ==
    [r EXCEPT !.pc = "awaitDenial",
              !.denial = decision,
              !.denials = IF decision = "cooldown" THEN @ ELSE @ + 1,
              !.timeLeft = IF decision = "cooldown"
                           THEN Ceil(cooldowns[r.name][r.user][1] - now, 1000)
                           ELSE 0]

\* A failing guard awaits its denial message (lines 44-47, 52-55, 60-63, 72-76).
Denied(r, decision) ==
    [r EXCEPT !.pc = "awaitDenial",
              !.denial = decision,
              !.denials = @ + 1,
              !.timeLeft = IF decision = "cooldown"
                           THEN Ceil(cooldowns[r.name][r.user][1] - now, 1000)
                           ELSE 0]

\* The last two entries of a history.
LastTwo(h) == IF Len(h) <= 2 THEN h ELSE SubSeq(h, Len(h) - 1, Len(h))

\* Mutant: a denied call of canExecute writes the cooldown entry and schedules
\* its removal, like an allowed one.
HandleCommand_DenialRestarts(s, name, user, guild) ==
    /\ inv[s].pc = "idle"
    /\ \A o \in Slots : o < s => inv[o].pc # "idle"
    /\ arrivals < MaxInvocations
    /\ arrivals' = arrivals + 1
    /\ IF name \notin CommandNames
       THEN /\ inv' = [inv EXCEPT ![s] =
                         [IdleInvocation EXCEPT !.pc = "awaitNotFound", !.name = name,
                                                !.user = user, !.guild = guild,
                                                !.notFound = 1]]
            /\ UNCHANGED <<cooldowns, timers, allowedAt>>
       ELSE IF GuardDecision(name, user, guild) # "allow"
       THEN /\ inv' = [inv EXCEPT ![s] =
                         Denied([IdleInvocation EXCEPT
                                    !.name = name, !.user = user, !.guild = guild,
                                    !.resolved = TRUE, !.canExecute = "pending"],
                                GuardDecision(name, user, guild))]
            /\ cooldowns' = [cooldowns EXCEPT ![name][user] =
                                <<now + commands[name].cooldownMs>>]
            /\ timers' = timers \cup
                           {[id |-> arrivals + 1, cmd |-> name, user |-> user,
                             due |-> now + commands[name].cooldownMs]}
            /\ UNCHANGED allowedAt
       ELSE /\ inv' = [inv EXCEPT ![s] =
                         [IdleInvocation EXCEPT
                             !.pc = "gateOpen", !.name = name, !.user = user,
                             !.guild = guild, !.resolved = TRUE,
                             !.canExecute = "true"]]
            /\ allowedAt' = [allowedAt EXCEPT ![name][user] = LastTwo(Append(@, now))]
            /\ IF StartsCooldown(name)
               THEN /\ cooldowns' = [cooldowns EXCEPT ![name][user] =
                                        <<now + commands[name].cooldownMs>>]
                    /\ timers' = timers \cup
                                   {[id |-> arrivals + 1, cmd |-> name, user |-> user,
                                     due |-> now + commands[name].cooldownMs]}
               ELSE UNCHANGED <<cooldowns, timers>>
    /\ UNCHANGED <<now, ownerId, memberPerms, commands, done>>
    /\ UNCHANGED <<regVars, sysVars>>

\* handleCommand up to its first suspension: the table lookup and, when an
\* instance is found, canExecute up to its first await (or to its return).
HandleCommand(s, name, user, guild) ==
    /\ inv[s].pc = "idle"
    /\ \A o \in Slots : o < s => inv[o].pc # "idle"
    /\ arrivals < MaxInvocations
    /\ arrivals' = arrivals + 1
    /\ IF name \notin CommandNames
       THEN /\ inv' = [inv EXCEPT ![s] =
                         [IdleInvocation EXCEPT !.pc = "awaitNotFound", !.name = name,
                                                !.user = user, !.guild = guild,
                                                !.notFound = 1]]
            /\ UNCHANGED <<cooldowns, timers, allowedAt>>
       ELSE IF GuardDecision(name, user, guild) # "allow"
       THEN /\ inv' = [inv EXCEPT ![s] =
                         Denied([IdleInvocation EXCEPT
                                    !.name = name, !.user = user, !.guild = guild,
                                    !.resolved = TRUE, !.canExecute = "pending"],
                                GuardDecision(name, user, guild))]
            /\ UNCHANGED <<cooldowns, timers, allowedAt>>
       ELSE /\ inv' = [inv EXCEPT ![s] =
                         [IdleInvocation EXCEPT
                             !.pc = "gateOpen", !.name = name, !.user = user,
                             !.guild = guild, !.resolved = TRUE,
                             !.canExecute = "true"]]
            /\ allowedAt' = [allowedAt EXCEPT ![name][user] = LastTwo(Append(@, now))]
            /\ IF StartsCooldown(name)
               THEN /\ cooldowns' = [cooldowns EXCEPT ![name][user] =
                                        <<now + commands[name].cooldownMs>>]
                    /\ timers' = timers \cup
                                   {[id |-> arrivals + 1, cmd |-> name, user |-> user,
                                     due |-> now + commands[name].cooldownMs]}
               ELSE UNCHANGED <<cooldowns, timers>>
    /\ UNCHANGED <<now, ownerId, memberPerms, commands, done>>
    /\ UNCHANGED <<regVars, sysVars>>

\* Mutant: an interaction of another kind is looked up like a command and gets
\* the "not found" reply.
IgnoreInteraction_Answers ==
    /\ arrivals < MaxInvocations
    /\ inv[1].pc = "idle"
    /\ arrivals' = arrivals + 1
    /\ inv' = [inv EXCEPT ![1] =
                  [IdleInvocation EXCEPT !.pc = "awaitNotFound", !.notFound = 1]]
    /\ UNCHANGED <<now, ownerId, memberPerms, commands, cooldowns, timers, done, allowedAt>>
    /\ UNCHANGED <<regVars, sysVars>>

\* InteractionCreateEvent.execute for an interaction that is no CommandInteraction
IgnoreInteraction ==
    /\ arrivals < MaxInvocations
    /\ arrivals' = arrivals + 1
    /\ UNCHANGED <<now, ownerId, memberPerms, commands, cooldowns, timers, inv, done, allowedAt>>
    /\ UNCHANGED <<regVars, sysVars>>

\* Mutant: the failure notice is always sent as a new reply.
IssueNotice_AlwaysCreate(r, ack) ==
    [r EXCEPT !.pc = "awaitNotice", !.acknowledged = ack, !.notices = @ + 1,
              !.noticeVia = "create",
              !.afterFailure = IF r.failed > 0 THEN @ + 1 ELSE @]

\* The catch block of handleCommand (lines 54-67) issues the failure notice.
IssueNotice(r, ack) ==
    [r EXCEPT !.pc = "awaitNotice", !.acknowledged = ack, !.notices = @ + 1,
              !.noticeVia = IF ack THEN "edit" ELSE "create",
              !.afterFailure = IF r.failed > 0 THEN @ + 1 ELSE @]

\* Mutant: the listener is registered without the try/catch wrapper.
ListenerOutcome_Unwrapped(outcome) == outcome

\* The listener registered by registerEvent awaits event.execute() inside
\* try/catch: it logs what handleCommand threw and returns.
ListenerOutcome(outcome) == "returned"

\* The handler's promise settles: handleCommand returned, or threw into
\* the listener wrapper of registerEvent.
Settled(r, outcome, ack) ==
    [r EXCEPT !.pc = "done", !.outcome = outcome, !.acknowledged = ack,
              !.listener = ListenerOutcome(outcome)]

\* Mutant: execute() is called without waiting for canExecute's verdict.
ExecuteCall_Ungated(s) ==
    /\ inv[s].pc \in {"gateOpen", "awaitDenial"}
    /\ inv' = [inv EXCEPT ![s].pc = "executing", ![s].executeCalls = @ + 1]
    /\ UNCHANGED <<now, ownerId, memberPerms, commands, cooldowns, timers, done, arrivals, allowedAt>>
    /\ UNCHANGED <<regVars, sysVars>>

\* await command.execute(interaction), entered once canExecute resolved to true
ExecuteCall(s) ==
    /\ inv[s].pc = "gateOpen"
    /\ inv' = [inv EXCEPT ![s].pc = "executing", ![s].executeCalls = @ + 1]
    /\ UNCHANGED <<now, ownerId, memberPerms, commands, cooldowns, timers, done, arrivals, allowedAt>>
    /\ UNCHANGED <<regVars, sysVars>>

\* execute() awaits a reply of its own (createMessage / editOriginal)
ExecuteReplies(s) ==
    /\ inv[s].pc = "executing"
    /\ inv[s].execReplies < MaxExecReplies
    /\ inv' = [inv EXCEPT ![s].pc = "awaitExecReply", ![s].execReplies = @ + 1]
    /\ UNCHANGED <<now, ownerId, memberPerms, commands, cooldowns, timers, done, arrivals, allowedAt>>
    /\ UNCHANGED <<regVars, sysVars>>

\* Mutant: no try/catch around execute(): the error leaves handleCommand.
ExecuteThrows_Uncaught(s) ==
    /\ inv[s].pc = "executing"
    /\ done' = Settled([inv[s] EXCEPT !.executeFailed = TRUE], "threw",
                       inv[s].acknowledged)
    /\ inv' = [inv EXCEPT ![s] = IdleInvocation]
    /\ UNCHANGED <<now, ownerId, memberPerms, commands, cooldowns, timers, arrivals, allowedAt>>
    /\ UNCHANGED <<regVars, sysVars>>

\* execute() throws synchronously or its promise rejects
ExecuteThrows(s) ==
    /\ inv[s].pc = "executing"
    /\ inv' = [inv EXCEPT ![s] =
                  IssueNotice([inv[s] EXCEPT !.executeFailed = TRUE], inv[s].acknowledged)]
    /\ UNCHANGED <<now, ownerId, memberPerms, commands, cooldowns, timers, done, arrivals, allowedAt>>
    /\ UNCHANGED <<regVars, sysVars>>

\* execute() resolves; usage logging and logger.info follow (lines 43-53)
ExecuteReturns(s) ==
    /\ inv[s].pc = "executing"
    /\ done' = Settled(inv[s], "returned", inv[s].acknowledged)
    /\ inv' = [inv EXCEPT ![s] = IdleInvocation]
    /\ UNCHANGED <<now, ownerId, memberPerms, commands, cooldowns, timers, arrivals, allowedAt>>
    /\ UNCHANGED <<regVars, sysVars>>

\* The gateway accepts the reply the handler is waiting on.
ReplyDelivered(s) ==
    /\ inv[s].pc \in {"awaitNotFound", "awaitDenial", "awaitExecReply", "awaitNotice"}
    /\ IF inv[s].pc = "awaitExecReply"
       THEN /\ inv' = [inv EXCEPT ![s].pc = "executing", ![s].acknowledged = TRUE]
            /\ UNCHANGED done
       ELSE /\ inv' = [inv EXCEPT ![s] = IdleInvocation]
            /\ done' =
                 CASE inv[s].pc = "awaitNotFound" -> Settled(inv[s], "returned", TRUE)
                   [] inv[s].pc = "awaitDenial" ->
                         Settled([inv[s] EXCEPT !.canExecute = "false"], "returned", TRUE)
                   [] inv[s].pc = "awaitNotice" ->
                         Settled(inv[s], "returned", inv[s].acknowledged)
    /\ UNCHANGED <<now, ownerId, memberPerms, commands, cooldowns, timers, arrivals, allowedAt>>
    /\ UNCHANGED <<regVars, sysVars>>

\* Mutant: the "not found" reply is sent inside the try block, so its failure is
\* answered with the failure notice.
ReplyFails_NotFoundInTry(s, ack) ==
    /\ inv[s].pc \in {"awaitNotFound", "awaitDenial", "awaitExecReply", "awaitNotice"}
    /\ inv[s].acknowledged => ack
    /\ CASE inv[s].pc = "awaitNotFound" ->
               /\ inv' = [inv EXCEPT ![s] = IssueNotice([inv[s] EXCEPT !.failed = @ + 1], ack)]
               /\ UNCHANGED done
         [] inv[s].pc = "awaitDenial" ->
               /\ inv' = [inv EXCEPT ![s] =
                             IssueNotice([inv[s] EXCEPT !.canExecute = "threw",
                                                        !.failed = @ + 1], ack)]
               /\ UNCHANGED done
         [] inv[s].pc = "awaitExecReply" ->
               /\ inv' = [inv EXCEPT ![s] =
                             IssueNotice([inv[s] EXCEPT !.executeFailed = TRUE,
                                                        !.failed = @ + 1], ack)]
               /\ UNCHANGED done
         [] inv[s].pc = "awaitNotice" ->
               /\ inv[s].acknowledged = ack
               /\ inv' = [inv EXCEPT ![s] = IdleInvocation]
               /\ done' = Settled([inv[s] EXCEPT !.failed = @ + 1], "returned", ack)
    /\ UNCHANGED <<now, ownerId, memberPerms, commands, cooldowns, timers, arrivals, allowedAt>>
    /\ UNCHANGED <<regVars, sysVars>>

\* The reply the handler is waiting on fails (stale token, network). Whether the
\* interaction counts as acknowledged after a failed first reply is decided by
\* the gateway library: both outcomes are explored.
ReplyFails(s, ack) ==
    /\ inv[s].pc \in {"awaitNotFound", "awaitDenial", "awaitExecReply", "awaitNotice"}
    /\ inv[s].acknowledged => ack
    /\ CASE inv[s].pc = "awaitNotFound" ->
               /\ inv' = [inv EXCEPT ![s] = IdleInvocation]
               /\ done' = Settled([inv[s] EXCEPT !.failed = @ + 1], "threw", ack)
         [] inv[s].pc = "awaitDenial" ->
               /\ inv' = [inv EXCEPT ![s] =
                             IssueNotice([inv[s] EXCEPT !.canExecute = "threw",
                                                        !.failed = @ + 1], ack)]
               /\ UNCHANGED done
         [] inv[s].pc = "awaitExecReply" ->
               /\ inv' = [inv EXCEPT ![s] =
                             IssueNotice([inv[s] EXCEPT !.executeFailed = TRUE,
                                                        !.failed = @ + 1], ack)]
               /\ UNCHANGED done
         [] inv[s].pc = "awaitNotice" ->
               /\ inv[s].acknowledged = ack
               /\ inv' = [inv EXCEPT ![s] = IdleInvocation]
               /\ done' = Settled([inv[s] EXCEPT !.failed = @ + 1], "returned", ack)
    /\ UNCHANGED <<now, ownerId, memberPerms, commands, cooldowns, timers, arrivals, allowedAt>>
    /\ UNCHANGED <<regVars, sysVars>>

\* Date.now() advances by one millisecond
Tick ==
    /\ now < MaxTime
    /\ now' = now + 1
    /\ UNCHANGED <<ownerId, memberPerms, commands, cooldowns, timers, inv, done, arrivals, allowedAt>>
    /\ UNCHANGED <<regVars, sysVars>>

\* Date.now() advances by d milliseconds
Advance(d) ==
    /\ now + d <= MaxClock
    /\ now' = now + d
    /\ UNCHANGED <<ownerId, memberPerms, commands, cooldowns, timers, inv, done, arrivals, allowedAt>>
    /\ UNCHANGED <<regVars, sysVars>>

\* Mutant: the timer callback clears the command's whole map.
TimerFires_ClearsMap(t) ==
    /\ t \in timers
    /\ t.due <= now
    /\ \A o \in timers : t.due <= o.due
    /\ cooldowns' = [cooldowns EXCEPT ![t.cmd] = [u \in Users |-> <<>>]]
    /\ timers' = timers \ {t}
    /\ UNCHANGED <<now, ownerId, memberPerms, commands, inv, done, arrivals, allowedAt>>
    /\ UNCHANGED <<regVars, sysVars>>

\* Mutant: the timer callback runs without deleting the entry.
TimerFires_Forgets(t) ==
    /\ t \in timers
    /\ t.due <= now
    /\ \A o \in timers : t.due <= o.due
    /\ timers' = timers \ {t}
    /\ UNCHANGED <<now, ownerId, memberPerms, commands, cooldowns, inv, done, arrivals, allowedAt>>
    /\ UNCHANGED <<regVars, sysVars>>

\* A setTimeout callback of line 81 runs: at or after its due time, earliest due
\* first. It deletes the user's entry whatever that entry now holds.
TimerFires(t) ==
    /\ t \in timers
    /\ t.due <= now
    /\ \A o \in timers : t.due <= o.due
    /\ cooldowns' = [cooldowns EXCEPT ![t.cmd][t.user] = <<>>]
    /\ timers' = timers \ {t}
    /\ UNCHANGED <<now, ownerId, memberPerms, commands, inv, done, arrivals, allowedAt>>
    /\ UNCHANGED <<regVars, sysVars>>

\* The interactions being handled.
InFlight == Cardinality({s \in Slots : inv[s].pc # "idle"})

\* Every interaction, against every guard configuration. The clock is read only
\* against cooldown expiries, and an expiry exists only while its removal timer
\* is pending: the clock is advanced only then.
DispatchStep ==
    \/ \E s \in Slots, n \in InteractionNames, u \in Users, g \in BOOLEAN :
          arrivals < MaxGuarded /\ InFlight < MaxInflight /\ HandleCommand(s, n, u, g)
    \/ arrivals < MaxGuarded /\ IgnoreInteraction
    \/ \E s \in Slots : ExecuteCall(s)
    \/ \E s \in Slots : ExecuteReplies(s)
    \/ \E s \in Slots : ExecuteThrows(s)
    \/ \E s \in Slots : ExecuteReturns(s)
    \/ \E s \in Slots : ReplyDelivered(s)
    \/ \E s \in Slots, ack \in BOOLEAN : ReplyFails(s, ack)
    \/ timers # {} /\ Tick
    \/ \E t \in timers : TimerFires(t)

\* Guild interactions on the registered commands, with no guard flag set.
CooldownStep ==
    \/ \E s \in Slots, n \in CommandNames, u \in Users :
          InFlight < MaxInflight /\ HandleCommand(s, n, u, TRUE)
    \/ \E s \in Slots : ExecuteCall(s)
    \/ \E s \in Slots : ExecuteThrows(s)
    \/ \E s \in Slots : ExecuteReturns(s)
    \/ \E s \in Slots : ReplyDelivered(s)
    \/ \E s \in Slots, ack \in BOOLEAN : ReplyFails(s, ack)
    \/ Tick
    \/ \E t \in timers : TimerFires(t)

\* @Cooldown durations of whole and half seconds, and the clock steps that reach
\* the instants around their expiries.
SecondDurations == {1000, 2500}

ClockSteps == {500, 501, 999}

\* Guild interactions on "ping", whose cooldown lasts seconds; every reply is
\* delivered and execute() returns.
BoundaryStep ==
    \/ \E s \in Slots, u \in Users :
          InFlight < MaxInflight /\ HandleCommand(s, "ping", u, TRUE)
    \/ \E s \in Slots : ExecuteCall(s)
    \/ \E s \in Slots : ExecuteReturns(s)
    \/ \E s \in Slots : ReplyDelivered(s)
    \/ \E d \in ClockSteps : Advance(d)
    \/ \E t \in timers : TimerFires(t)

\* Overlapping guild interactions on "ping": a handler suspended in execute()
\* or on a reply leaves the turn to the next interaction or timer.
RaceStep ==
    \/ \E s \in Slots, u \in Users : HandleCommand(s, "ping", u, TRUE)
    \/ \E s \in Slots : ExecuteCall(s)
    \/ \E s \in Slots : ExecuteReplies(s)
    \/ \E s \in Slots : ExecuteReturns(s)
    \/ \E s \in Slots : ReplyDelivered(s)
    \/ Tick
    \/ \E t \in timers : TimerFires(t)

\* The permission names, the lists given to @RequirePermissions on "ping" and
\* what each invoker may hold.
PermNames == {"A", "B"}

RequiredLists == {<<>>, <<"A">>, <<"A", "B">>}

Holdings == [Users -> SUBSET PermNames]

\* Guild interactions on "ping", which requires permissions.
PermissionStep ==
    \/ \E s \in Slots, u \in Users, g \in BOOLEAN :
          InFlight < MaxInflight /\ HandleCommand(s, "ping", u, g)
    \/ \E s \in Slots : ExecuteCall(s)
    \/ \E s \in Slots : ExecuteReplies(s)
    \/ \E s \in Slots : ExecuteReturns(s)
    \/ \E s \in Slots : ReplyDelivered(s)

\* Guild interactions, known and unknown, whose replies may fail; the clock
\* stands still.
FailureStep ==
    \/ \E s \in Slots, n \in InteractionNames, u \in Users :
          InFlight < MaxInflight /\ HandleCommand(s, n, u, TRUE)
    \/ \E s \in Slots : ExecuteCall(s)
    \/ \E s \in Slots : ExecuteReplies(s)
    \/ \E s \in Slots : ExecuteThrows(s)
    \/ \E s \in Slots : ExecuteReturns(s)
    \/ \E s \in Slots : ReplyDelivered(s)
    \/ \E s \in Slots, ack \in BOOLEAN : ReplyFails(s, ack)

\* ------------------------------------------------------------------------
\* Process lifecycle: bootstrap(), the command table, the bulk declaration of
\* the commands and shutdown(signal)
\* ------------------------------------------------------------------------
Last(s) == s[Len(s)]

Range(s) == {s[i] : i \in 1..Len(s)}

\* The modules bootstrap() initializes, in its order.
ModuleOrder == <<"General", "Moderation">>

Modules == {"General", "Moderation"}

\* The classes the modules construct: the first module builds commands and the
\* two events (K1 as the "ready" event, K2 as the "interactionCreate" event), the
\* second builds commands only.
ModulePlans ==
    {[m \in Modules |->
        IF m = "General" THEN [commands |-> g, events |-> <<"K1", "K2">>]
        ELSE [commands |-> k, events |-> <<>>]] :
     g \in {<<"K1">>, <<"K1", "K2">>}, k \in {<<"K2">>, <<"K1">>}}

\* `this.metadata.options = [...]` in a command's constructor: K2 assigns its
\* options, K1 assigns none. <<>> is "no assignment".
ConstructorOptions(c) == IF c = "K2" THEN << <<"user">> >> ELSE <<>>

\* The object stored by @Command(name, description)
CommandRecord(a) ==
    [name |-> a[1], description |-> a[2],
     guildOnly |-> FALSE, ownerOnly |-> FALSE, nsfw |-> FALSE]

Alive == exitCode = <<>>

\* Mutant: set() always adds an entry, also under a key the Map already holds.
MapSet_Append(table, entry) == Append(table, entry)

\* Map.prototype.set, the Map kept in insertion order: the value of a key that
\* is present is replaced where it stands, a new key goes to the end.
MapSet(table, entry) ==
    IF \E i \in 1..Len(table) : table[i].name = entry.name
    THEN [i \in 1..Len(table) |->
            IF table[i].name = entry.name THEN entry ELSE table[i]]
    ELSE Append(table, entry)

\* The classes of cs constructed before the first BaseCommand constructor that
\* throws for missing metadata.
RECURSIVE BuiltCommands(_)
BuiltCommands(cs) ==
    IF cs = <<>> THEN <<>>
    ELSE IF getCommandMetadata(Head(cs)) = <<>> THEN <<>>
    ELSE <<Head(cs)>> \o BuiltCommands(Tail(cs))

\* The same for BaseEvent constructors.
RECURSIVE BuiltEvents(_)
BuiltEvents(cs) ==
    IF cs = <<>> THEN <<>>
    ELSE IF getEventMetadata(Head(cs)) = <<>> THEN <<>>
    ELSE <<Head(cs)>> \o BuiltEvents(Tail(cs))

\* The constructors of cs have assigned their options to the metadata objects
\* their instances refer to.
RECURSIVE WriteOptions(_, _)
WriteOptions(mo, cs) ==
    IF cs = <<>> THEN mo
    ELSE WriteOptions(IF ConstructorOptions(Head(cs)) = <<>> THEN mo
                      ELSE [mo EXCEPT ![CmdOwner(Head(cs))] = ConstructorOptions(Head(cs))],
                      Tail(cs))

\* The instance of class c that is the id-th one registered.
CommandEntry(c, id) ==
    [name |-> cmdOwn[CmdOwner(c)][1].name, cls |-> c, metadata |-> CmdOwner(c), id |-> id]

EventEntry(c) ==
    [name |-> getEventMetadata(c)[1].name, once |-> getEventMetadata(c)[1].once, cls |-> c]

\* commands.forEach((command) => client.registerCommand(command))
RECURSIVE RegisterCommands(_, _, _)
RegisterCommands(table, cs, id) ==
    IF cs = <<>> THEN table
    ELSE RegisterCommands(MapSet(table, CommandEntry(Head(cs), id)), Tail(cs), id + 1)

\* events.forEach((event) => client.registerEvent(event)) : the events Map
RECURSIVE RegisterEvents(_, _)
RegisterEvents(table, cs) ==
    IF cs = <<>> THEN table
    ELSE RegisterEvents(MapSet(table, [name |-> EventEntry(Head(cs)).name, cls |-> Head(cs)]),
                        Tail(cs))

\* The state in which the process starts.
LifeStart(plans, shutdowns) ==
    /\ plan \in plans
    /\ hasShutdown \in shutdowns
    /\ bootPc = "database"
    /\ bootModule = 1
    /\ bootError = "none"
    /\ exitCode = <<>>
    /\ clientCommands = <<>>
    /\ clientEvents = <<>>
    /\ listeners = <<>>
    /\ clientModules = <<>>
    /\ metaOptions = [c \in Classes |-> <<>>]
    /\ connected = FALSE
    /\ declared = <<>>
    /\ dispatched = 0
    /\ shutdownPc = "idle"
    /\ cursor = 0
    /\ shutdownCalls = <<>>
    /\ disconnects = 0
    /\ hRegistered = <<>>
    /\ hModulesAtSignal = <<>>

\* The lifecycle variables while another part of the program is explored.
LifeAtRest ==
    LifeStart({[m \in Modules |-> [commands |-> <<>>, events |-> <<>>]]},
              {[m \in Modules |-> TRUE]})

\* The class declarations have all been evaluated: K1 and K2 with or without
\* their own @Command and @Event, no guard and no cooldown.
DeclaredRegistry ==
    /\ superclass \in Hierarchies
    /\ defined = [c \in Classes |-> TRUE]
    /\ declaring = NoClass
    /\ cmdOwn \in {[c \in Classes |-> IF c = "K1" THEN a ELSE b] :
                     a \in {<<>>, <<CommandRecord(<<"ping", "d1">>)>>},
                     b \in {<<>>, <<CommandRecord(<<"ping", "d2">>)>>,
                            <<CommandRecord(<<"ban", "d2">>)>>}}
    /\ eventOwn \in {[c \in Classes |-> IF c = "K1" THEN a ELSE b] :
                     a \in {<<>>, <<[name |-> "ready", once |-> TRUE]>>},
                     b \in {<<>>, <<[name |-> "interactionCreate", once |-> FALSE]>>}}
    /\ attachCount = Cardinality({c \in Classes : cmdOwn[c] # <<>>})
                       + Cardinality({c \in Classes : eventOwn[c] # <<>>})
    /\ guardRef = [c \in Classes |-> NoClass]
    /\ guardHeap = [c \in Classes |-> EmptyGuards]
    /\ cooldownOwn = [c \in Classes |-> <<>>]
    /\ instances = <<>>
    /\ eventInstances = <<>>
    /\ lastNew = [kind |-> "none", cls |-> NoClass, threw |-> FALSE]
    /\ hCmd = [c \in Classes |->
                 IF cmdOwn[c] = <<>> THEN <<>>
                 ELSE <<[name |-> cmdOwn[c][1].name,
                         description |-> cmdOwn[c][1].description]>>]
    /\ hCooldown = [c \in Classes |-> <<>>]
    /\ hEvent = [c \in Classes |-> eventOwn[c]]
    /\ hPerms = [c \in Classes |-> <<>>]
    /\ hFlags = [c \in Classes |-> {}]

\* bootstrap(): `await database.connect()` when a database URL is configured
DatabaseStep(outcome) ==
    /\ Alive
    /\ bootPc = "database"
    /\ IF outcome = "failed"
       THEN /\ bootPc' = "failed"
            /\ bootError' = "database"
            /\ exitCode' = <<1>>
       ELSE /\ bootPc' = "initialize"
            /\ UNCHANGED <<bootError, exitCode>>
    /\ UNCHANGED <<plan, hasShutdown, bootModule, clientCommands, clientEvents, listeners,
                   clientModules, metaOptions, connected, declared, dispatched, shutdownPc,
                   cursor, shutdownCalls, disconnects, hRegistered, hModulesAtSignal>>
    /\ UNCHANGED <<regVars, dispVars, legacyVars>>

\* bootstrap(): `await module.initialize(client)`. The module constructs its
\* commands, then its events, then registers them; a constructor that throws
\* leaves the module unregistered and bootstrap() exits with code 1.
InitializeModule ==
    /\ Alive
    /\ bootPc = "initialize"
    /\ LET m == ModuleOrder[bootModule]
           cs == plan[m].commands
           es == plan[m].events
           bc == BuiltCommands(cs)
           be == IF bc = cs THEN BuiltEvents(es) ELSE <<>>
       IN /\ metaOptions' = WriteOptions(metaOptions, bc)
          /\ IF bc = cs /\ be = es
             THEN /\ clientCommands' =
                        RegisterCommands(clientCommands, cs, Len(hRegistered) + 1)
                  /\ hRegistered' = hRegistered \o
                        [i \in 1..Len(cs) |-> CommandEntry(cs[i], Len(hRegistered) + i)]
                  /\ clientEvents' = RegisterEvents(clientEvents, es)
                  /\ listeners' = listeners \o [i \in 1..Len(es) |-> EventEntry(es[i])]
                  /\ bootPc' = "register"
                  /\ UNCHANGED <<bootError, exitCode>>
             ELSE /\ bootPc' = "failed"
                  /\ bootError' = "definition"
                  /\ exitCode' = <<1>>
                  /\ UNCHANGED <<clientCommands, hRegistered, clientEvents, listeners>>
    /\ UNCHANGED <<plan, hasShutdown, bootModule, clientModules, connected, declared,
                   dispatched, shutdownPc, cursor, shutdownCalls, disconnects,
                   hModulesAtSignal>>
    /\ UNCHANGED <<regVars, dispVars, legacyVars>>

\* bootstrap(): client.registerModule(module)
RegisterModule ==
    /\ Alive
    /\ bootPc = "register"
    /\ clientModules' = MapSet(clientModules, [name |-> ModuleOrder[bootModule]])
    /\ IF bootModule < Len(ModuleOrder)
       THEN /\ bootModule' = bootModule + 1
            /\ bootPc' = "initialize"
       ELSE /\ bootPc' = "connect"
            /\ UNCHANGED bootModule
    /\ UNCHANGED <<plan, hasShutdown, bootError, exitCode, clientCommands, clientEvents,
                   listeners, metaOptions, connected, declared, dispatched, shutdownPc,
                   cursor, shutdownCalls, disconnects, hRegistered, hModulesAtSignal>>
    /\ UNCHANGED <<regVars, dispVars, legacyVars>>

\* client.initialize(): loadModules() does nothing, then connect() is called
ClientInitialize ==
    /\ Alive
    /\ bootPc = "connect"
    /\ bootPc' = "connecting"
    /\ UNCHANGED <<plan, hasShutdown, bootModule, bootError, exitCode, clientCommands,
                   clientEvents, listeners, clientModules, metaOptions, connected, declared,
                   dispatched, shutdownPc, cursor, shutdownCalls, disconnects, hRegistered,
                   hModulesAtSignal>>
    /\ UNCHANGED <<regVars, dispVars, legacyVars>>

\* `await this.connect()` settles; a rejection is rethrown and bootstrap() exits
ConnectSettles(ok) ==
    /\ Alive
    /\ bootPc = "connecting"
    /\ IF ok
       THEN /\ connected' = TRUE
            /\ bootPc' = "health"
            /\ UNCHANGED <<bootError, exitCode>>
       ELSE /\ bootPc' = "failed"
            /\ bootError' = "connect"
            /\ exitCode' = <<1>>
            /\ UNCHANGED connected
    /\ UNCHANGED <<plan, hasShutdown, bootModule, clientCommands, clientEvents, listeners,
                   clientModules, metaOptions, declared, dispatched, shutdownPc, cursor,
                   shutdownCalls, disconnects, hRegistered, hModulesAtSignal>>
    /\ UNCHANGED <<regVars, dispVars, legacyVars>>

\* bootstrap(): healthCheckServer.start()
HealthStart(ok) ==
    /\ Alive
    /\ bootPc = "health"
    /\ IF ok
       THEN /\ bootPc' = "running"
            /\ UNCHANGED <<bootError, exitCode>>
       ELSE /\ bootPc' = "failed"
            /\ bootError' = "health"
            /\ exitCode' = <<1>>
    /\ UNCHANGED <<plan, hasShutdown, bootModule, clientCommands, clientEvents, listeners,
                   clientModules, metaOptions, connected, declared, dispatched, shutdownPc,
                   cursor, shutdownCalls, disconnects, hRegistered, hModulesAtSignal>>
    /\ UNCHANGED <<regVars, dispVars, legacyVars>>

\* Array.from(this.commands.values()).map(...) : one entry per value of the Map,
\* in Map order, read from the metadata the instance refers to.
CommandData(table) ==
    [i \in 1..Len(table) |->
        [name |-> cmdOwn[table[i].metadata][1].name,
         description |-> cmdOwn[table[i].metadata][1].description,
         options |-> IF metaOptions[table[i].metadata] = <<>> THEN <<>>
                     ELSE metaOptions[table[i].metadata][1]]]

\* client.registerGlobalCommands(), called by a "ready" listener
RegisterGlobalCommands ==
    /\ Alive
    /\ connected
    /\ \E i \in 1..Len(listeners) : listeners[i].name = "ready"
    /\ Len(declared) < MaxDeclare
    /\ declared' = Append(declared, [list |-> CommandData(clientCommands),
                                     table |-> clientCommands])
    /\ UNCHANGED <<plan, hasShutdown, bootPc, bootModule, bootError, exitCode, clientCommands,
                   clientEvents, listeners, clientModules, metaOptions, connected, dispatched,
                   shutdownPc, cursor, shutdownCalls, disconnects, hRegistered,
                   hModulesAtSignal>>
    /\ UNCHANGED <<regVars, dispVars, legacyVars>>

\* The gateway delivers an interaction to an "interactionCreate" listener
DispatchInteraction ==
    /\ Alive
    /\ connected
    /\ \E i \in 1..Len(listeners) : listeners[i].name = "interactionCreate"
    /\ dispatched < MaxDispatch
    /\ dispatched' = dispatched + 1
    /\ UNCHANGED <<plan, hasShutdown, bootPc, bootModule, bootError, exitCode, clientCommands,
                   clientEvents, listeners, clientModules, metaOptions, connected, declared,
                   shutdownPc, cursor, shutdownCalls, disconnects, hRegistered,
                   hModulesAtSignal>>
    /\ UNCHANGED <<regVars, dispVars, legacyVars>>

\* The next position at or after `from` of the for-of loop whose module defines
\* shutdown(); 0 when the loop is over. The iterator of a Map also visits the
\* entries added while it runs.
NextShutdown(from) ==
    LET S == {i \in from..Len(clientModules) : hasShutdown[clientModules[i].name]}
    IN IF S = {} THEN 0 ELSE CHOOSE i \in S : \A j \in S : i <= j

\* Mutant: a module whose shutdown() failed ends the loop.
ShutdownLoop_StopsOnFailure(from, calls) ==
    IF NextShutdown(from) # 0 /\ (calls = <<>> \/ calls[Len(calls)].outcome # "threw")
    THEN /\ cursor' = NextShutdown(from)
         /\ shutdownCalls' = Append(calls, [module |-> clientModules[NextShutdown(from)].name,
                                            outcome |-> "pending"])
         /\ shutdownPc' = "module"
         /\ UNCHANGED <<connected, disconnects>>
    ELSE /\ cursor' = Len(clientModules) + 1
         /\ shutdownCalls' = calls
         /\ connected' = FALSE
         /\ disconnects' = disconnects + 1
         /\ shutdownPc' = "closing"

\* client.shutdown() from position `from` of its loop up to its next await: the
\* call of the next module's shutdown(), or this.disconnect(false) and return.
ShutdownLoop(from, calls) ==
    IF NextShutdown(from) # 0
    THEN /\ cursor' = NextShutdown(from)
         /\ shutdownCalls' = Append(calls, [module |-> clientModules[NextShutdown(from)].name,
                                            outcome |-> "pending"])
         /\ shutdownPc' = "module"
         /\ UNCHANGED <<connected, disconnects>>
    ELSE /\ cursor' = Len(clientModules) + 1
         /\ shutdownCalls' = calls
         /\ connected' = FALSE
         /\ disconnects' = disconnects + 1
         /\ shutdownPc' = "closing"

\* SIGINT or SIGTERM: shutdown(signal) calls client.shutdown()
Signal ==
    /\ Alive
    /\ shutdownPc = "idle"
    /\ hModulesAtSignal' = clientModules
    /\ ShutdownLoop(1, shutdownCalls)
    /\ UNCHANGED <<plan, hasShutdown, bootPc, bootModule, bootError, exitCode, clientCommands,
                   clientEvents, listeners, clientModules, metaOptions, declared, dispatched,
                   hRegistered>>
    /\ UNCHANGED <<regVars, dispVars, legacyVars>>

\* `await module.shutdown()` settles; a rejection is caught and logged
ModuleShutdownSettles(outcome) ==
    /\ Alive
    /\ shutdownPc = "module"
    /\ ShutdownLoop(cursor + 1,
                    [shutdownCalls EXCEPT ![Len(shutdownCalls)].outcome = outcome])
    /\ UNCHANGED <<plan, hasShutdown, bootPc, bootModule, bootError, exitCode, clientCommands,
                   clientEvents, listeners, clientModules, metaOptions, declared, dispatched,
                   hRegistered, hModulesAtSignal>>
    /\ UNCHANGED <<regVars, dispVars, legacyVars>>

\* shutdown(signal) after client.shutdown(): the database and the health server
\* are closed and the process exits, with code 1 if that failed
ShutdownExits(code) ==
    /\ Alive
    /\ shutdownPc = "closing"
    /\ shutdownPc' = "done"
    /\ exitCode' = <<code>>
    /\ UNCHANGED <<plan, hasShutdown, bootPc, bootModule, bootError, clientCommands,
                   clientEvents, listeners, clientModules, metaOptions, connected, declared,
                   dispatched, cursor, shutdownCalls, disconnects, hRegistered,
                   hModulesAtSignal>>
    /\ UNCHANGED <<regVars, dispVars, legacyVars>>

LifeStep ==
    \/ \E o \in {"none", "connected", "failed"} : DatabaseStep(o)
    \/ InitializeModule
    \/ RegisterModule
    \/ ClientInitialize
    \/ \E ok \in BOOLEAN : ConnectSettles(ok)
    \/ \E ok \in BOOLEAN : HealthStart(ok)
    \/ RegisterGlobalCommands
    \/ DispatchInteraction
    \/ Signal
    \/ \E o \in {"ok", "threw"} : ModuleShutdownSettles(o)
    \/ \E code \in {0, 1} : ShutdownExits(code)

\* ------------------------------------------------------------------------
\* The options-based commands: CommandHandler, PermissionManager and the
\* InteractionCreate event that dispatches to them
\* ------------------------------------------------------------------------
LegacyNames == {"ping", "help"}

Guilds == {"g1", "g2"}

\* guildId undefined: the global scope of a record, a DM for an interaction
NoGuild == "global"

Scopes == Guilds \cup {NoGuild}

LegacyPermissions == {"A", "B"}

\* PermissionManager.PERMISSION_LEVELS
PERMISSION_LEVELS == [USER |-> 0, MODERATOR |-> 1, ADMIN |-> 2, OWNER |-> 3]

\* The cooldown option a command passes to super(): "ping" passes one, "help"
\* passes none.
CooldownOption(name) == IF name = "ping" THEN <<CooldownMs>> ELSE <<>>

\* BaseCommand constructor (options-based): the instance built for `name` from
\* its file, the n-th one built.
LegacyCommand(name, permissions, guildOnly, n) ==
    [name |-> name,
     permissions |-> permissions,
     guildOnly |-> guildOnly,
     dmOnly |-> FALSE,
     ownerOnly |-> FALSE,
     cooldown |-> IF CooldownOption(name) = <<>> THEN 3000 ELSE CooldownOption(name)[1],
     filePath |-> <<name>>,
     version |-> n]

\* getUserPermissions: the scope under which the record it returns is stored
\* (the guild's, else the user's global one), NoGuild also when there is none.
FoundScope(userId, guildId) ==
    IF guildId # NoGuild /\ userPermissions[userId][guildId] # <<>> THEN guildId ELSE NoGuild

\* PermissionManager.getUserPermissions: <<>> is undefined
getUserPermissions(userId, guildId) == userPermissions[userId][FoundScope(userId, guildId)]

\* PermissionManager.hasPermission
hasPermission(userId, guildId, requiredPermissions) ==
    LET userPerms == getUserPermissions(userId, guildId)
    IN IF userPerms # <<>> /\ "*" \in Range(userPerms[1].permissions) THEN TRUE
       ELSE IF requiredPermissions = <<>> THEN TRUE
       ELSE \A i \in 1..Len(requiredPermissions) :
               /\ userPerms # <<>>
               /\ requiredPermissions[i] \in Range(userPerms[1].permissions)

\* BaseCommand.canExecute (options-based)
LegacyCanExecute(command, user, guild) ==
    IF command.ownerOnly /\ user # ownerId THEN FALSE
    ELSE IF command.guildOnly /\ guild = NoGuild THEN FALSE
    ELSE IF command.dmOnly /\ guild # NoGuild THEN FALSE
    ELSE IF guild # NoGuild /\ Len(command.permissions) > 0
            /\ ~hasPermission(user, guild, command.permissions) THEN FALSE
    ELSE TRUE

\* The state after the handlers and managers were constructed and loadCommands
\* ran: the owner, when configured, holds '*' globally.
LegacyStart(owners, required) ==
    /\ handlerCommands \in
          {[n \in LegacyNames |->
               <<LegacyCommand(n, IF n = "ping" THEN ps ELSE <<>>,
                               IF n = "ping" THEN go ELSE FALSE, 0)>>] :
           ps \in required, go \in BOOLEAN}
    /\ \E o \in owners :
          userPermissions =
             [u \in Users |-> [s \in Scopes |->
                 IF u = o /\ s = NoGuild
                 THEN <<[guildId |-> NoGuild, permissions |-> <<"*">>,
                         level |-> PERMISSION_LEVELS.OWNER]>>
                 ELSE <<>>]]
    /\ reloading = [n \in LegacyNames |-> <<>>]
    /\ lastReload = [name |-> "none", result |-> FALSE, before |-> <<>>]
    /\ reloadCalls = 0
    /\ permissionCalls = 0
    /\ executedAt = [n \in LegacyNames |-> [u \in Users |-> <<>>]]
    /\ lastLegacy = [name |-> "none", user |-> NoUser, guild |-> NoGuild, outcome |-> "none"]
    /\ legacyArrivals = 0

\* The options-based part while another part of the program is explored.
LegacyAtRest == LegacyStart({NoUser}, {<<>>}) /\ ~handlerCommands["ping"][1].guildOnly

\* InteractionCreate.execute: what it does with an application command
LegacyOutcome(name, user, guild) ==
    IF handlerCommands[name] = <<>> THEN "unknown"
    ELSE IF ~LegacyCanExecute(handlerCommands[name][1], user, guild) THEN "denied"
    ELSE "executed"

\* InteractionCreate.execute for an application command: the lookup, canExecute
\* and, when allowed, execute() with its error reply.
LegacyInteraction(name, user, guild) ==
    /\ legacyArrivals < MaxInvocations
    /\ legacyArrivals' = legacyArrivals + 1
    /\ lastLegacy' = [name |-> name, user |-> user, guild |-> guild,
                      outcome |-> LegacyOutcome(name, user, guild)]
    /\ executedAt' = IF LegacyOutcome(name, user, guild) = "executed"
                     THEN [executedAt EXCEPT ![name][user] = LastTwo(Append(@, now))]
                     ELSE executedAt
    /\ UNCHANGED <<handlerCommands, userPermissions, reloading, lastReload, reloadCalls,
                   permissionCalls>>
    /\ UNCHANGED <<regVars, dispVars, lifeVars>>

\* PermissionManager.setUserPermissions: stored under the record's own guildId
SetUserPermissions(userId, record) ==
    /\ permissionCalls < MaxPermissionCalls
    /\ permissionCalls' = permissionCalls + 1
    /\ userPermissions' = [userPermissions EXCEPT ![userId][record.guildId] = <<record>>]
    /\ UNCHANGED <<handlerCommands, reloading, lastReload, reloadCalls, executedAt, lastLegacy,
                   legacyArrivals>>
    /\ UNCHANGED <<regVars, dispVars, lifeVars>>

\* PermissionManager.removeUserPermissions
RemoveUserPermissions(userId, guildId) ==
    /\ permissionCalls < MaxPermissionCalls
    /\ permissionCalls' = permissionCalls + 1
    /\ userPermissions' = [userPermissions EXCEPT ![userId][guildId] = <<>>]
    /\ UNCHANGED <<handlerCommands, reloading, lastReload, reloadCalls, executedAt, lastLegacy,
                   legacyArrivals>>
    /\ UNCHANGED <<regVars, dispVars, lifeVars>>

\* addPermission: the record it writes. The record found for the guild, or
\* else the user's global one, gets the permission pushed; a user with neither
\* gets a new record for the guild.
AddedRecord(userId, permission, guildId) ==
    IF getUserPermissions(userId, guildId) # <<>>
    THEN [getUserPermissions(userId, guildId)[1] EXCEPT
             !.permissions = IF permission \in Range(@) THEN @ ELSE Append(@, permission)]
    ELSE [guildId |-> guildId, permissions |-> <<permission>>,
          level |-> PERMISSION_LEVELS.USER]

\* PermissionManager.addPermission: the record is changed in place and stored
\* again under its own guildId.
AddPermission(userId, permission, guildId) ==
    /\ permissionCalls < MaxPermissionCalls
    /\ permissionCalls' = permissionCalls + 1
    /\ userPermissions' =
          [userPermissions EXCEPT
              ![userId][AddedRecord(userId, permission, guildId).guildId] =
                  <<AddedRecord(userId, permission, guildId)>>]
    /\ UNCHANGED <<handlerCommands, reloading, lastReload, reloadCalls, executedAt, lastLegacy,
                   legacyArrivals>>
    /\ UNCHANGED <<regVars, dispVars, lifeVars>>

\* setPermissionLevel: the record it writes
LevelledRecord(userId, level, guildId) ==
    IF getUserPermissions(userId, guildId) # <<>>
    THEN [getUserPermissions(userId, guildId)[1] EXCEPT !.level = level]
    ELSE [guildId |-> guildId, permissions |-> <<>>, level |-> level]

\* PermissionManager.setPermissionLevel
SetPermissionLevel(userId, level, guildId) ==
    /\ permissionCalls < MaxPermissionCalls
    /\ permissionCalls' = permissionCalls + 1
    /\ userPermissions' =
          [userPermissions EXCEPT
              ![userId][LevelledRecord(userId, level, guildId).guildId] =
                  <<LevelledRecord(userId, level, guildId)>>]
    /\ UNCHANGED <<handlerCommands, reloading, lastReload, reloadCalls, executedAt, lastLegacy,
                   legacyArrivals>>
    /\ UNCHANGED <<regVars, dispVars, lifeVars>>

\* reloadCommand line 176: this.commands.delete(name)
TableWhileReloading(name) == [handlerCommands EXCEPT ![name] = <<>>]

\* CommandHandler.reloadCommand up to `await import(commandPath)`; it returns
\* false at once when the table has no such command.
ReloadCommand(name) ==
    /\ reloadCalls < MaxReloads
    /\ reloadCalls' = reloadCalls + 1
    /\ IF handlerCommands[name] = <<>>
       THEN /\ lastReload' = [name |-> name, result |-> FALSE, before |-> <<>>]
            /\ UNCHANGED <<handlerCommands, reloading>>
       ELSE /\ handlerCommands' = TableWhileReloading(name)
            /\ reloading' = [reloading EXCEPT ![name] = handlerCommands[name]]
            /\ UNCHANGED lastReload
    /\ UNCHANGED <<userPermissions, permissionCalls, executedAt, lastLegacy, legacyArrivals>>
    /\ UNCHANGED <<regVars, dispVars, lifeVars>>

\* The import settles: the class is constructed and stored under the name, or
\* the import or the constructor throws and the catch block returns false.
ReloadSettles(name, ok) ==
    /\ reloading[name] # <<>>
    /\ reloading' = [reloading EXCEPT ![name] = <<>>]
    /\ lastReload' = [name |-> name, result |-> ok, before |-> reloading[name]]
    /\ handlerCommands' =
          IF ok
          THEN [handlerCommands EXCEPT ![name] =
                   <<[reloading[name][1] EXCEPT !.version = reloadCalls]>>]
          ELSE handlerCommands
    /\ UNCHANGED <<userPermissions, reloadCalls, permissionCalls, executedAt, lastLegacy,
                   legacyArrivals>>
    /\ UNCHANGED <<regVars, dispVars, lifeVars>>

\* The records given to setUserPermissions.
GivenRecords ==
    {[guildId |-> s, permissions |-> <<p>>, level |-> PERMISSION_LEVELS.MODERATOR] :
        s \in Scopes, p \in LegacyPermissions}

\* Interactions on the options-based commands while the clock advances.
LegacyStep ==
    \/ \E n \in LegacyNames, u \in Users, g \in Scopes : LegacyInteraction(n, u, g)
    \/ Tick

\* Calls of the PermissionManager's writing methods.
ManagerStep ==
    \/ \E u \in Users, r \in GivenRecords : SetUserPermissions(u, r)
    \/ \E u \in Users, g \in Scopes : RemoveUserPermissions(u, g)
    \/ \E u \in Users, p \in LegacyPermissions, g \in Scopes : AddPermission(u, p, g)
    \/ \E u \in Users, g \in Scopes :
          SetPermissionLevel(u, PERMISSION_LEVELS.ADMIN, g)

\* Reloads of the commands, and interactions that look them up.
ReloadStep ==
    \/ \E n \in LegacyNames : ReloadCommand(n)
    \/ \E n \in LegacyNames, ok \in BOOLEAN : ReloadSettles(n, ok)
    \/ \E n \in LegacyNames, u \in Users, g \in Scopes : LegacyInteraction(n, u, g)

\* The other parts of the program while one part is explored.
SystemAtRest == LifeAtRest /\ LegacyAtRest

InitBoot ==
    /\ DeclaredRegistry
    /\ DispatchAtRest
    /\ LegacyAtRest
    /\ LifeStart(ModulePlans, [Modules -> BOOLEAN])

NextBoot == LifeStep


InitReg == InitRegistry /\ DispatchAtRest /\ SystemAtRest

\* The registry while only the run time is explored: no decorated class.
RegistryAtRest == InitRegistry /\ superclass = [c \in Classes |-> NoClass]

InitRun == RegistryAtRest /\ SystemAtRest /\ InitDispatch

InitCooldown ==
    /\ InitRun
    /\ ownerId = "u1"
    /\ commands["ping"].guards = NoGuards

NextReg == RegStep

NextDispatch == DispatchStep

NextCooldown == CooldownStep

InitRace ==
    RegistryAtRest /\ SystemAtRest /\ DispatchStart({"u1"}, {NoGuards}, {CooldownMs}, {<<>>}, NoHoldings)

NextRace == RaceStep

InitPermissions ==
    RegistryAtRest /\ SystemAtRest /\ DispatchStart({"u1"}, GuardSets, {0}, RequiredLists, Holdings)

NextPermissions == PermissionStep

InitFailures ==
    RegistryAtRest /\ SystemAtRest /\ DispatchStart({"u1"}, {NoGuards}, {CooldownMs}, {<<>>}, NoHoldings)

NextFailures == FailureStep

InitBoundary ==
    RegistryAtRest /\ SystemAtRest /\ DispatchStart({"u1"}, {NoGuards}, SecondDurations, {<<>>}, NoHoldings)

NextBoundary == BoundaryStep

\* Cooldowns of 0 (disabled), of one millisecond and of CooldownMs on "ping".
ExpiryDurations == {0, 1, CooldownMs}

InitExpiry ==
    RegistryAtRest /\ SystemAtRest /\ DispatchStart({NoUser}, {NoGuards}, ExpiryDurations, {<<>>}, NoHoldings)

\* Guild interactions whose cooldown window ends within the explored time;
\* every reply is delivered and execute() returns.
ExpiryStep ==
    \/ \E s \in Slots, n \in CommandNames, u \in Users :
          /\ InFlight < MaxInflight
          /\ now + commands[n].cooldownMs <= MaxTime
          /\ HandleCommand(s, n, u, TRUE)
    \/ \E s \in Slots : ExecuteCall(s)
    \/ \E s \in Slots : ExecuteReturns(s)
    \/ \E s \in Slots : ReplyDelivered(s)
    \/ Tick
    \/ \E t \in timers : TimerFires(t)

NextExpiry == ExpiryStep

\* The options-based commands, one of which may require a permission.
InitLegacy ==
    /\ RegistryAtRest
    /\ LifeAtRest
    /\ DispatchStart({"u1"}, {NoGuards}, {0}, {<<>>}, NoHoldings)
    /\ LegacyStart({"u1"}, {<<>>, <<"A">>})

NextLegacy == LegacyStep

NextManager == ManagerStep

NextReload == ReloadStep

SpecReg == InitReg /\ [][NextReg]_vars

SpecDispatch == InitRun /\ [][NextDispatch]_vars

SpecCooldown == InitCooldown /\ [][NextCooldown]_vars

SpecBoundary == InitBoundary /\ [][NextBoundary]_vars

SpecRace == InitRace /\ [][NextRace]_vars

SpecPermissions == InitPermissions /\ [][NextPermissions]_vars

SpecFailures == InitFailures /\ [][NextFailures]_vars

SpecBoot == InitBoot /\ [][NextBoot]_vars

SpecLegacy == InitLegacy /\ [][NextLegacy]_vars

SpecManager == InitLegacy /\ [][NextManager]_vars

SpecReload == InitLegacy /\ [][NextReload]_vars

\* The clock advances, and the event loop runs a timer callback once it is due.
SpecExpiry ==
    /\ InitExpiry
    /\ [][NextExpiry]_vars
    /\ WF_vars(Tick)
    /\ WF_vars(\E t \in timers : TimerFires(t))

\* ------------------------------------------------------------------------
\* Properties of the registry and of construction
\* ------------------------------------------------------------------------
\* The permissions list read for a class ([] when it has no guard record).
PermissionsRead(c) ==
    IF getGuardsMetadata(c) = <<>> THEN <<>> ELSE getGuardsMetadata(c)[1].permissions

\* The value of a flag read for a class (FALSE when it has no guard record).
FlagRead(c, f) ==
    /\ getGuardsMetadata(c) # <<>>
    /\ CASE f = "guildOnly" -> getGuardsMetadata(c)[1].guildOnly
         [] f = "dmOnly"    -> getGuardsMetadata(c)[1].dmOnly
         [] f = "ownerOnly" -> getGuardsMetadata(c)[1].ownerOnly
         [] f = "nsfw"      -> getGuardsMetadata(c)[1].nsfw

\* C5: constructing a BaseCommand (resp. BaseEvent) of a class on which @Command
\* (resp. @Event) was never applied always throws, whether or not a parent class
\* was annotated, so no instance of such a class exists.
C5_FailFastConstruction ==
    /\ (lastNew.kind = "command" /\ hCmd[lastNew.cls] = <<>>) => lastNew.threw
    /\ (lastNew.kind = "event" /\ hEvent[lastNew.cls] = <<>>) => lastNew.threw
    /\ \A i \in 1..Len(instances) : hCmd[instances[i].cls] # <<>>
    /\ \A i \in 1..Len(eventInstances) : hEvent[eventInstances[i].cls] # <<>>

\* C6: constructing an instance of a class with attached command metadata never
\* throws; the instance's name and description are exactly those attached to its
\* class; and reading an annotated class returns what was attached to that class,
\* never what was attached to another annotated class.
C6_ConstructionReadsOwnMetadata ==
    /\ (lastNew.kind = "command" /\ hCmd[lastNew.cls] # <<>>) => ~lastNew.threw
    /\ \A i \in 1..Len(instances) :
          hCmd[instances[i].cls] # <<>> =>
             /\ MetadataOf(instances[i]).name = Last(hCmd[instances[i].cls]).name
             /\ MetadataOf(instances[i]).description
                   = Last(hCmd[instances[i].cls]).description
    /\ \A c \in Classes :
          hCmd[c] # <<>> =>
             /\ getCommandMetadata(c) # <<>>
             /\ getCommandMetadata(c)[1].name = Last(hCmd[c]).name
             /\ getCommandMetadata(c)[1].description = Last(hCmd[c]).description

\* An instance of an annotated subclass exists whose annotated parent carries a
\* different name and description.
C6_Witness ==
    \E i \in 1..Len(instances) :
        /\ instances[i].cls = "K2"
        /\ hCmd["K2"] # <<>>
        /\ hCmd["K1"] # <<>>
        /\ Last(hCmd["K1"]).name # Last(hCmd["K2"]).name
        /\ Last(hCmd["K1"]).description # Last(hCmd["K2"]).description
        /\ lastNew = [kind |-> "command", cls |-> "K2", threw |-> FALSE]

\* C7: after @RequirePermissions calls with lists P1..Pn on a class, the guard
\* record read for that class holds exactly P1 \o ... \o Pn.
C7_PermissionsConcatenation ==
    \A c \in Classes : hPerms[c] # <<>> => PermissionsRead(c) = hPerms[c]

\* The classes whose guard decorators wrote into the object that c reads.
Writers(c) == {k \in Classes : guardRef[k] # NoClass /\ guardRef[k] = GuardObj(c)}

\* The record read for a class is the OR of the flags and the union of the
\* permissions of the calls that wrote it: a function of the set of calls,
\* whatever their order.
C8_OrderIndependent ==
    \A c \in Classes :
        /\ \A f \in Flags : FlagRead(c, f) <=> (\E k \in Writers(c) : f \in hFlags[k])
        /\ Range(PermissionsRead(c)) = UNION {Range(hPerms[k]) : k \in Writers(c)}

\* A flag that reads true still reads true after any step.
C8_FlagsMonotone ==
    \A c \in Classes, f \in Flags : FlagRead(c, f) => FlagRead(c, f)'

\* Attaching a flag changes no permissions list and no other flag.
C8_FlagFrame ==
    \A c \in Classes, f \in Flags :
        AttachFlag(c, f) =>
            \A k \in Classes :
                /\ PermissionsRead(k)' = PermissionsRead(k)
                /\ \A g \in Flags \ {f} : FlagRead(k, g)' = FlagRead(k, g)

\* C8: guard flags are merged by logical OR and are order-independent: the flags
\* and the set of permissions read for a class depend only on which attach calls
\* were made; a flag once true is never reset; attaching a flag never changes the
\* permissions list or another flag.
C8_FlagsMergedByOr ==
    /\ []C8_OrderIndependent
    /\ [][C8_FlagsMonotone]_vars
    /\ [][C8_FlagFrame]_vars

\* A class that received two different flags and a permissions list.
C8_Witness ==
    \E c \in Classes :
        /\ Cardinality(hFlags[c]) >= 2
        /\ hPerms[c] # <<>>
        /\ Len(PermissionsRead(c)) >= 1
        /\ \A f \in hFlags[c] : FlagRead(c, f)

\* A step of one of the overwrite decorators.
OverwriteStep ==
    \/ \E c \in Classes, a \in CommandArgs : Command(c, a[1], a[2])
    \/ \E c \in Classes, ms \in CooldownArgs : Cooldown(c, ms)
    \/ \E c \in Classes, a \in EventArgs : Event(c, a[1], a[2])

C9_LastWriteWins ==
    \A c \in Classes :
        /\ hCmd[c] # <<>> =>
              /\ getCommandMetadata(c) # <<>>
              /\ getCommandMetadata(c)[1].name = Last(hCmd[c]).name
              /\ getCommandMetadata(c)[1].description = Last(hCmd[c]).description
        /\ hCooldown[c] # <<>> => getCooldownMetadata(c) = <<Last(hCooldown[c])>>
        /\ hEvent[c] # <<>> => getEventMetadata(c) = <<Last(hEvent[c])>>

C9_GuardFrame ==
    OverwriteStep => \A k \in Classes : getGuardsMetadata(k)' = getGuardsMetadata(k)

\* C9: @Command, @Cooldown and @Event overwrite: a read returns the arguments of
\* the last corresponding call on the class only, and none of these calls changes
\* any guard record.
C9_OverwriteFields ==
    /\ []C9_LastWriteWins
    /\ [][C9_GuardFrame]_vars

\* A class with a guard record on which @Cooldown was applied twice with
\* different durations and @Command once.
C9_Witness ==
    \E c \in Classes :
        /\ Len(hCooldown[c]) = 2
        /\ hCooldown[c][1] # hCooldown[c][2]
        /\ hCooldown[c][1] > 0
        /\ getCooldownMetadata(c) = <<hCooldown[c][2]>>
        /\ hCmd[c] # <<>>

\* ------------------------------------------------------------------------
\* Properties of the dispatcher and of canExecute
\* ------------------------------------------------------------------------
\* Every interaction the model holds: those being handled and the last settled.
Records == {inv[s] : s \in Slots} \cup {done}

\* C1: for a command with cooldownMs > 0, any two invocations by one user that
\* canExecute allowed are at least cooldownMs apart, under every interleaving of
\* invocations and removal timers.
C1_MinimumInterval ==
    \A n \in CommandNames, u \in Users :
        commands[n].cooldownMs > 0 =>
            \A i, j \in 1..Len(allowedAt[n][u]) :
                i < j => allowedAt[n][u][j] - allowedAt[n][u][i] >= commands[n].cooldownMs

\* C2: when execute() throws or rejects, the handler still returns normally and
\* exactly one failure notice is issued for that invocation.
C2_DispatchResilience ==
    /\ \A r \in Records : r.executeFailed => r.notices = 1
    /\ \A r \in Records : r.notices <= 1
    /\ done.executeFailed => done.outcome = "returned"

\* execute() rejected after it had replied, and the handler returned.
C2_Witness ==
    /\ done.pc = "done"
    /\ done.executeCalls = 1
    /\ done.executeFailed
    /\ done.acknowledged
    /\ done.noticeVia = "edit"
    /\ done.outcome = "returned"

\* C3: execute() is called only after canExecute() returned true for the same
\* invocation; after a false return the dispatcher calls no execute() and sends
\* nothing of its own: the denial is the only message.
C3_GateBeforeExecute ==
    \A r \in Records :
        /\ r.executeCalls > 0 => r.canExecute = "true"
        /\ r.canExecute = "false" =>
              /\ r.executeCalls = 0
              /\ r.execReplies = 0
              /\ r.notices = 0
              /\ r.notFound = 0
              /\ r.denials = 1
              /\ r.pc = "done"
              /\ r.outcome = "returned"

\* A guild-only command was denied outside a guild and the handler stopped.
C3_Witness ==
    /\ done.pc = "done"
    /\ done.canExecute = "false"
    /\ done.denial = "guild"
    /\ done.denials = 1
    /\ done.executeCalls = 0
    /\ done.outcome = "returned"

OwnerFails(r) == commands[r.name].guards.ownerOnly /\ r.user # ownerId

GuildFails(r) == commands[r.name].guards.guildOnly /\ ~r.guild

DmFails(r) == commands[r.name].guards.dmOnly /\ r.guild

C4_FirstFailingGuardDecides ==
    \A r \in Records :
        r.resolved =>
            /\ OwnerFails(r) => r.denial = "owner"
            /\ (~OwnerFails(r) /\ GuildFails(r)) => r.denial = "guild"
            /\ (~OwnerFails(r) /\ ~GuildFails(r) /\ DmFails(r)) => r.denial = "dm"
            /\ (~OwnerFails(r) /\ ~GuildFails(r) /\ ~DmFails(r)) =>
                   r.denial \in {"cooldown", "none"}
            /\ r.denial # "none" => r.denials = 1

\* A guard before the cooldown denied: the cooldown guard had no effect.
C4_LaterGuardsUntouched ==
    \A s \in Slots :
        (inv[s].pc = "idle" /\ inv'[s].denial \in {"owner", "guild", "dm"}) =>
            /\ cooldowns' = cooldowns
            /\ timers' = timers
            /\ inv'[s].timeLeft = 0

C10_DenialIffFalse ==
    \A r \in Records :
        /\ r.canExecute = "false" => (r.denials = 1 /\ r.denial # "none")
        /\ r.canExecute = "true" => (r.denials = 0 /\ r.denial = "none")
        /\ r.denials <= 1

\* An invocation inside the user's cooldown window returned false after its
\* denial message.
C10_Witness ==
    /\ done.pc = "done"
    /\ done.canExecute = "false"
    /\ done.denial = "cooldown"
    /\ done.denials = 1
    /\ done.timeLeft = 1
    /\ allowedAt[done.name][done.user] # <<>>

\* A tracked expiry is the time of the user's last allowed invocation plus the
\* command's duration.
C11_ExpiryIsStartPlusDuration ==
    \A n \in CommandNames, u \in Users :
        cooldowns[n][u] # <<>> =>
            /\ allowedAt[n][u] # <<>>
            /\ cooldowns[n][u][1] = Last(allowedAt[n][u]) + commands[n].cooldownMs

\* An invocation that reaches the cooldown guard while an expiry E is tracked is
\* denied before E, naming the least whole number of seconds that covers E - now,
\* and allowed from E on.
C11_DecisionAtExpiry ==
    \A s \in Slots, n \in CommandNames, u \in Users :
        (/\ inv[s].pc = "idle"
         /\ inv'[s].pc # "idle"
         /\ inv'[s].name = n
         /\ inv'[s].user = u
         /\ commands[n].cooldownMs > 0
         /\ cooldowns[n][u] # <<>>
         /\ ~OwnerFails(inv'[s]) /\ ~GuildFails(inv'[s]) /\ ~DmFails(inv'[s]))
        => IF now < cooldowns[n][u][1]
           THEN /\ inv'[s].denial = "cooldown"
                /\ inv'[s].denials = 1
                /\ inv'[s].canExecute # "true"
                /\ inv'[s].timeLeft * 1000 >= cooldowns[n][u][1] - now
                /\ (inv'[s].timeLeft - 1) * 1000 < cooldowns[n][u][1] - now
           ELSE /\ inv'[s].canExecute = "true"
                /\ inv'[s].denial = "none"
                /\ inv'[s].denials = 0

\* C11: cooldown boundary: with a tracked expiry E = t0 + c, an invocation at
\* now < E is denied with the remaining seconds rounded up, and an invocation at
\* now >= E is allowed.
C11_CooldownBoundary ==
    /\ []C11_ExpiryIsStartPlusDuration
    /\ [][C11_DecisionAtExpiry]_vars

\* A user allowed at 0 with a 2500 ms cooldown was denied with 1501 ms left
\* ("2 seconds"), and allowed at 2500 exactly while the entry was still tracked
\* (its removal timer had not run).
C11_Witness ==
    /\ done.pc = "done"
    /\ done.denial = "cooldown"
    /\ done.timeLeft = 2
    /\ commands[done.name].cooldownMs = 2500
    /\ allowedAt[done.name][done.user] = <<0, 2500>>
    /\ \E t \in timers : t.id = 0 /\ t.user = done.user

\* An invocation of command n by user u leaves every other entry of every
\* cooldown map as it was, and is denied for cooldown only on u's own entry in n.
C12_OwnEntryOnly ==
    \A s \in Slots :
        (inv[s].pc = "idle" /\ inv'[s].pc # "idle") =>
            /\ \A m \in CommandNames, v \in Users :
                  (m # inv'[s].name \/ v # inv'[s].user) =>
                      cooldowns'[m][v] = cooldowns[m][v]
            /\ inv'[s].denial = "cooldown" =>
                  /\ cooldowns[inv'[s].name][inv'[s].user] # <<>>
                  /\ now < cooldowns[inv'[s].name][inv'[s].user][1]

\* A removal timer deletes only the entry of its own command and user.
C12_TimerOwnEntryOnly ==
    \A t \in timers :
        (timers' = timers \ {t}) =>
            \A m \in CommandNames, v \in Users :
                (m # t.cmd \/ v # t.user) => cooldowns'[m][v] = cooldowns[m][v]

\* C12: cooldowns are per (command, user): an invocation reads and writes only
\* the invoker's entry in the invoked command's map, so another user without an
\* entry, and the same user on another command, are not denied for cooldown.
C12_PerCommandPerUser ==
    /\ [][C12_OwnEntryOnly]_vars
    /\ [][C12_TimerOwnEntryOnly]_vars

\* While u1 is cooling down on "ping", u2 was allowed on "ping" and u1 is allowed
\* on "ban".
C12_Witness ==
    /\ cooldowns["ping"]["u1"] # <<>>
    /\ now < cooldowns["ping"]["u1"][1]
    /\ done.name = "ping" /\ done.user = "u2" /\ done.canExecute = "true"
    /\ \E s \in Slots :
          inv[s].name = "ban" /\ inv[s].user = "u1" /\ inv[s].canExecute = "true"

\* C13: two invocations of one cooldown-protected command by one user that are
\* in flight together and were both allowed by canExecute were allowed at least
\* cooldownMs apart: of two that arrive closer together, at most one is allowed.
C13_NoCheckWriteRace ==
    \A s1, s2 \in Slots :
        (/\ s1 # s2
         /\ inv[s1].pc # "idle" /\ inv[s2].pc # "idle"
         /\ inv[s1].name = inv[s2].name
         /\ inv[s1].user = inv[s2].user
         /\ inv[s1].resolved
         /\ commands[inv[s1].name].cooldownMs > 0
         /\ inv[s1].canExecute = "true" /\ inv[s2].canExecute = "true")
        => /\ Len(allowedAt[inv[s1].name][inv[s1].user]) = 2
           /\ allowedAt[inv[s1].name][inv[s1].user][2]
                 - allowedAt[inv[s1].name][inv[s1].user][1]
                    >= commands[inv[s1].name].cooldownMs

\* An invocation whose name is not in the command table: one "not found" reply
\* and nothing else; an invocation that resolved sends no such reply.
C14_OnlyTheNotFoundReply ==
    \A r \in Records :
        /\ (r.pc # "idle" /\ ~r.resolved) =>
              /\ r.name \notin CommandNames
              /\ r.notFound = 1
              /\ r.canExecute = "none"
              /\ r.denials = 0
              /\ r.executeCalls = 0
              /\ r.execReplies = 0
              /\ r.notices = 0
        /\ r.resolved => (r.notFound = 0 /\ r.name \in CommandNames)

\* The arrival of an unknown name leaves the cooldown maps and timers as they were.
C14_CooldownsUntouched ==
    \A s \in Slots :
        (inv[s].pc = "idle" /\ inv'[s].pc # "idle" /\ inv'[s].name \notin CommandNames) =>
            /\ cooldowns' = cooldowns
            /\ timers' = timers
            /\ allowedAt' = allowedAt

\* C14: an interaction whose name matches no entry of the command table gets
\* exactly one "not found" reply, no canExecute() or execute() call, and changes
\* no cooldown state.
C14_UnknownCommand ==
    /\ []C14_OnlyTheNotFoundReply
    /\ [][C14_CooldownsUntouched]_vars

\* An unknown name was answered while a user's cooldown entry was tracked, and
\* the delivery of the reply failed.
C14_Witness ==
    /\ done.pc = "done"
    /\ done.name = "nope"
    /\ done.notFound = 1
    /\ done.outcome = "threw"
    /\ \E u \in Users : cooldowns["ping"][u] # <<>>

\* The notice for a failed execute() went through editOriginal exactly when the
\* interaction was acknowledged, through createMessage otherwise; an execute()
\* that attempted no reply leaves the interaction unacknowledged.
C15_ChannelMatchesAcknowledged ==
    \A r \in Records :
        /\ r.notices = 0 <=> r.noticeVia = "none"
        /\ (r.executeFailed /\ r.notices = 1) =>
              /\ r.noticeVia = "edit" <=> r.acknowledged
              /\ r.noticeVia = "create" <=> ~r.acknowledged
              /\ r.execReplies = 0 => r.noticeVia = "create"

\* When execute() fails after one of its replies was delivered, the notice edits
\* that reply.
C15_EditAfterDeliveredReply ==
    \A s \in Slots :
        (/\ inv[s].pc \in {"executing", "awaitExecReply"}
         /\ inv[s].acknowledged
         /\ inv'[s].pc = "awaitNotice")
        => inv'[s].noticeVia = "edit"

\* C15: when execute() fails, the single failure notice edits the pending reply
\* if and only if the interaction was already acknowledged; otherwise it is sent
\* as a new reply; never both.
C15_FailureNoticeChannel ==
    /\ []C15_ChannelMatchesAcknowledged
    /\ [][C15_EditAfterDeliveredReply]_vars

\* execute() threw before replying: the notice was sent as a new reply.
C15_Witness ==
    /\ done.pc = "done"
    /\ done.executeCalls = 1
    /\ done.executeFailed
    /\ done.execReplies = 0
    /\ done.notices = 1
    /\ done.noticeVia = "create"
    /\ ~done.acknowledged

\* C16: for a command marked ownerOnly, execute() is reached only for the
\* configured owner; every other invoker is denied for the owner reason, and
\* with no owner configured every invoker is.
C16_OwnerOnlyAccess ==
    \A r \in Records :
        (r.resolved /\ commands[r.name].guards.ownerOnly) =>
            /\ r.executeCalls > 0 => (ownerId # NoUser /\ r.user = ownerId)
            /\ r.canExecute = "true" => r.user = ownerId
            /\ r.user # ownerId =>
                  /\ r.denial = "owner"
                  /\ r.denials = 1
                  /\ r.executeCalls = 0
            /\ ownerId = NoUser => r.denial = "owner"

\* No owner is configured and an invocation of an ownerOnly command was denied.
C16_Witness ==
    /\ ownerId = NoUser
    /\ done.pc = "done"
    /\ done.resolved
    /\ commands[done.name].guards.ownerOnly
    /\ done.denial = "owner"
    /\ done.canExecute = "false"
    /\ done.executeCalls = 0

\* C17: a command annotated with @RequirePermissions(P1..Pn) reaches execute()
\* only for invokers who hold every one of P1..Pn.
C17_PermissionsEnforced ==
    \A r \in Records :
        (r.resolved /\ r.executeCalls > 0) =>
            \A i \in 1..Len(commands[r.name].permissions) :
                commands[r.name].permissions[i] \in memberPerms[r.user]

\* C18: whichever outbound reply call fails (the "not found" reply, a denial
\* inside canExecute, a reply inside execute(), the failure notice), the
\* registered listener returns normally: the error never leaves it.
C18_FailuresContained ==
    \A r \in Records :
        /\ r.listener # "threw"
        /\ r.pc = "done" => r.listener = "returned"
        /\ r.outcome = "threw" => (r.pc = "done" /\ r.listener = "returned")

\* The "not found" reply failed and handleCommand threw; the listener returned
\* and a later interaction has been dispatched and allowed.
C18_Witness ==
    /\ done.pc = "done"
    /\ done.name = "nope"
    /\ done.failed = 1
    /\ done.outcome = "threw"
    /\ done.listener = "returned"
    /\ arrivals = 2
    /\ \E s \in Slots : inv[s].pc = "executing" /\ inv[s].canExecute = "true"

\* C19: once an outbound reply call of an invocation has failed, no further
\* outbound reply call is made for that invocation.
C19_NoCallAfterFailure ==
    \A r \in Records : r.afterFailure = 0

\* Constructing a command instance leaves the metadata read from the registry
\* for every class, and the metadata of every instance that already exists, as
\* they were.
C20_ConstructionFrame ==
    Len(instances') > Len(instances) =>
        /\ \A k \in Classes : getCommandMetadata(k)' = getCommandMetadata(k)
        /\ \A i \in 1..Len(instances) :
              MetadataOf(instances[i])' = MetadataOf(instances[i])

\* C20: each command instance owns a copy of its class's metadata taken at
\* construction: the writes of the constructor (guard merge) leave the registry
\* record unchanged and are not visible in any other instance.
C20_MetadataSnapshot == [][C20_ConstructionFrame]_vars

\* The delivery of an interaction that is not a command sends no reply, resolves
\* no command, calls nothing, and leaves the table and the cooldown maps alone.
C23_IgnoredFrame ==
    IgnoreInteraction =>
        /\ inv' = inv
        /\ done' = done
        /\ commands' = commands
        /\ cooldowns' = cooldowns
        /\ timers' = timers
        /\ allowedAt' = allowedAt

\* C23: an inbound interaction that is not a command-type interaction is
\* ignored: no reply, no command resolved, no canExecute() or execute() call, and
\* the command table and every cooldown map unchanged.
C23_NonCommandIgnored == [][C23_IgnoredFrame]_vars

\* An interaction was delivered and no handler was started for it, while a
\* cooldown entry was tracked.
C23_Witness ==
    /\ arrivals = 1
    /\ \A s \in Slots : inv[s] = IdleInvocation
    /\ done = IdleInvocation
    /\ \E u \in Users : cooldowns["ping"][u] # <<>>

\* A guard decorator runs on class c.
AttachGuard(c) ==
    \/ \E p \in PermArgs : RequirePermissions(c, p)
    \/ \E f \in Flags : AttachFlag(c, f)

\* A guard decorator on one class changes the record read for no other class
\* that has been declared.
C26_IsolationFrame ==
    \A c \in Classes :
        AttachGuard(c) =>
            \A k \in Classes \ {c} :
                defined[k] => getGuardsMetadata(k)' = getGuardsMetadata(k)

\* C26: guard records are isolated per class: a guard decorator on class C
\* leaves the guard record read for every other class unchanged, also when C
\* extends a class that already has a guard record.
C26_GuardRecordsIsolated == [][C26_IsolationFrame]_vars

\* The steps of a denied call of canExecute, from the failing guard to the
\* return of false, write neither the cooldown maps nor the timers.
C27_DeniedFrame ==
    \A s \in Slots :
        (\/ inv[s].pc = "idle" /\ inv'[s].denial # "none"
         \/ inv[s].pc = "awaitDenial" /\ inv'[s] # inv[s]) =>
            /\ cooldowns' = cooldowns
            /\ timers' = timers

\* C27: a denied invocation leaves the cooldown state unchanged: whatever the
\* reason of the denial (owner, guild, DM, cooldown), the cooldown maps are as
\* before the call and no removal timer is scheduled.
C27_DenialLeavesCooldowns == [][C27_DeniedFrame]_vars

\* A user was denied for the cooldown reason after the clock had moved, and the
\* expiry is still the one set by the allowed invocation.
C27_Witness ==
    /\ done.pc = "done"
    /\ done.denial = "cooldown"
    /\ done.canExecute = "false"
    /\ allowedAt[done.name][done.user] # <<>>
    /\ now > Last(allowedAt[done.name][done.user])
    /\ cooldowns[done.name][done.user] =
          <<Last(allowedAt[done.name][done.user]) + commands[done.name].cooldownMs>>

\* Every cooldown entry has a pending removal timer for its command and user,
\* and a command whose cooldown is disabled has no entry.
C24_EntryHasTimer ==
    \A n \in CommandNames, u \in Users :
        cooldowns[n][u] # <<>> =>
            /\ \E t \in timers : t.cmd = n /\ t.user = u
            /\ commands[n].cooldownMs > 0

\* An entry is written only by an allowed call of canExecute on a command whose
\* cooldown is enabled.
C24_EntryCreation ==
    \A n \in CommandNames, u \in Users :
        (cooldowns'[n][u] # <<>> /\ cooldowns'[n][u] # cooldowns[n][u]) =>
            /\ commands[n].cooldownMs > 0
            /\ \E s \in Slots :
                  /\ inv[s].pc = "idle"
                  /\ inv'[s].canExecute = "true"
                  /\ inv'[s].name = n
                  /\ inv'[s].user = u

\* No user is tracked by any command.
C24_Empty == \A n \in CommandNames, u \in Users : cooldowns[n][u] = <<>>

\* C24: cooldown entries self-delete: every entry has a pending removal timer, so
\* with timers eventually firing a tracked user eventually returns to untracked
\* and the maps end up empty once invocations stop; entries are written only by
\* an allowed invocation of a command whose cooldownMs is positive.
C24_EntriesSelfDelete ==
    /\ []C24_EntryHasTimer
    /\ [][C24_EntryCreation]_vars
    /\ \A n \in CommandNames, u \in Users :
          (cooldowns[n][u] # <<>>) ~> (cooldowns[n][u] = <<>>)
    /\ <>[]C24_Empty

\* An allowed invocation of a command with a cooldown was handled, and the maps
\* are empty again with no timer left.
C24_Witness ==
    /\ done.pc = "done"
    /\ done.canExecute = "true"
    /\ commands[done.name].cooldownMs > 0
    /\ arrivals = MaxInvocations
    /\ C24_Empty
    /\ timers = {}

\* The names of a sequence of registrations, each once, in the order in which
\* they were first registered.
RECURSIVE NamesInOrder(_)
NamesInOrder(h) ==
    IF h = <<>> THEN <<>>
    ELSE LET front == NamesInOrder(SubSeq(h, 1, Len(h) - 1))
         IN IF \E i \in 1..Len(front) : front[i] = h[Len(h)].name
            THEN front ELSE Append(front, h[Len(h)].name)

\* The last registration made under a name.
LastRegistered(h, n) ==
    h[CHOOSE i \in 1..Len(h) :
          /\ h[i].name = n
          /\ \A j \in (i + 1)..Len(h) : h[j].name # n]

\* One entry per registered name, in the order the names were first registered,
\* carrying the name, description and options of the instance registered last
\* under that name.
C21_ExpectedList ==
    [k \in 1..Len(NamesInOrder(hRegistered)) |->
        LET e == LastRegistered(hRegistered, NamesInOrder(hRegistered)[k])
        IN [name |-> e.name,
            description |-> cmdOwn[e.metadata][1].description,
            options |-> IF metaOptions[e.metadata] = <<>> THEN <<>>
                        ELSE metaOptions[e.metadata][1]]]

\* The table holds, per name, the instance registered last, and every submitted
\* list is the expected one; lists submitted for equal tables are equal.
C21_ListMatchesTable ==
    /\ Len(clientCommands) = Len(NamesInOrder(hRegistered))
    /\ \A k \in 1..Len(clientCommands) :
          clientCommands[k] = LastRegistered(hRegistered, NamesInOrder(hRegistered)[k])
    /\ \A i \in 1..Len(declared) : declared[i].list = C21_ExpectedList
    /\ \A i, j \in 1..Len(declared) :
          declared[i].table = declared[j].table => declared[i].list = declared[j].list

\* A call of registerGlobalCommands makes one bulk call.
C21_OneBulkCall ==
    RegisterGlobalCommands =>
        /\ Len(declared') = Len(declared) + 1
        /\ SubSeq(declared', 1, Len(declared)) = declared

\* C21: registerGlobalCommands issues exactly one bulk declare call whose list
\* holds exactly one entry per name of the command table, in the order of
\* registration, each with that command's name, description and options; a
\* second call with the table unchanged submits the same list, and of two
\* commands registered under one name only the later one is in the table and in
\* the list.
C21_BulkDeclaration ==
    /\ []C21_ListMatchesTable
    /\ [][C21_OneBulkCall]_vars

\* Three commands were registered, the third under the name of the first, and
\* the list was submitted twice: two entries, the first being the third command.
C21_Witness ==
    /\ Len(declared) = 2
    /\ Len(hRegistered) = 3
    /\ hRegistered[1].name = hRegistered[3].name
    /\ hRegistered[2].name # hRegistered[1].name
    /\ Len(declared[2].list) = 2
    /\ clientCommands[1].id = 3
    /\ declared[2].list[1].name = hRegistered[3].name

\* The classes the modules construct as commands and as events.
PlannedCommands == UNION {Range(plan[m].commands) : m \in Modules}

PlannedEvents == UNION {Range(plan[m].events) : m \in Modules}

\* A class of the process is defective: it is constructed as a command without
\* a @Command of its own, or as an event without an @Event of its own.
DefectiveClass ==
    \/ \E c \in PlannedCommands : cmdOwn[c] = <<>>
    \/ \E c \in PlannedEvents : eventOwn[c] = <<>>

\* A constructor that threw for missing metadata ended the process with exit
\* code 1 before the connection was opened.
C22_AbortBeforeConnect ==
    bootError = "definition" =>
        /\ exitCode = <<1>>
        /\ ~connected
        /\ dispatched = 0
        /\ declared = <<>>

\* The connection is opened only after every module has registered its commands
\* and events and has been registered itself.
C22_ConnectAfterRegistration ==
    (bootPc \in {"connecting", "health", "running"} \/ connected \/ bootError = "connect") =>
        /\ clientModules = [i \in 1..Len(ModuleOrder) |-> [name |-> ModuleOrder[i]]]
        /\ \A c \in PlannedCommands : \E i \in 1..Len(hRegistered) : hRegistered[i].cls = c
        /\ \A c \in PlannedEvents : \E i \in 1..Len(listeners) : listeners[i].cls = c

\* No interaction is dispatched by a process that has a defective class.
C22_NoDispatchWithDefect == dispatched > 0 => ~DefectiveClass

\* C22: a command or event whose construction fails for missing metadata aborts
\* startup with a failure exit before the gateway connection is opened, so no
\* interaction is dispatched by a process that has a defective command or event
\* class; the connection is opened only after every module has registered all
\* its commands and events.
C22_StartupAbort ==
    /\ C22_AbortBeforeConnect
    /\ C22_ConnectAfterRegistration
    /\ C22_NoDispatchWithDefect

\* The modules of a sequence of Map entries that define shutdown(), in order.
WithShutdown(ms) == SelectSeq([i \in 1..Len(ms) |-> ms[i].name], LAMBDA m : hasShutdown[m])

\* While the loop of client.shutdown() runs nothing is disconnected; a module is
\* called at most once; once the loop is over every module that was registered
\* when it started and defines shutdown() has been called, in registration
\* order, whatever the outcome of the calls before it, every call has settled,
\* and disconnect was called once.
C30_EveryModuleVisited ==
    /\ shutdownPc \in {"idle", "module"} => disconnects = 0
    /\ \A i, j \in 1..Len(shutdownCalls) :
          shutdownCalls[i].module = shutdownCalls[j].module => i = j
    /\ shutdownPc \in {"closing", "done"} =>
          /\ disconnects = 1
          /\ \A i \in 1..Len(shutdownCalls) : shutdownCalls[i].outcome \in {"ok", "threw"}
          /\ \E k \in Len(hModulesAtSignal)..Len(clientModules) :
                [i \in 1..Len(shutdownCalls) |-> shutdownCalls[i].module] =
                    WithShutdown(SubSeq(clientModules, 1, k))
          /\ SubSeq(clientModules, 1, Len(hModulesAtSignal)) = hModulesAtSignal

\* disconnect is called by the step that ends the loop, with no call pending.
C30_DisconnectLast ==
    disconnects' # disconnects =>
        /\ disconnects' = disconnects + 1
        /\ \A i \in 1..Len(shutdownCalls') : shutdownCalls'[i].outcome # "pending"

\* C30: client.shutdown() calls shutdown() on every registered module that
\* defines it, in registration order, each at most once; a module whose
\* shutdown() throws or rejects does not keep the remaining ones from being shut
\* down, and the gateway disconnect happens exactly once, after all module
\* shutdowns have completed or failed.
C30_ShutdownVisitsModules ==
    /\ []C30_EveryModuleVisited
    /\ [][C30_DisconnectLast]_vars

\* Both modules define shutdown(); the first one's failed, the second one's was
\* called and succeeded, and the connection that was open has been closed.
C30_Witness ==
    /\ shutdownPc = "done"
    /\ hModulesAtSignal = [i \in 1..Len(ModuleOrder) |-> [name |-> ModuleOrder[i]]]
    /\ shutdownCalls = <<[module |-> "General", outcome |-> "threw"],
                         [module |-> "Moderation", outcome |-> "ok"]>>
    /\ disconnects = 1
    /\ bootPc = "running"

\* C25: for a command built with the options-based BaseCommand and a cooldown of
\* c milliseconds (3000 when none is given), a second invocation by the same
\* user within c milliseconds of an executed one is not executed by the handler:
\* two executions of a command for one user are at least c milliseconds apart.
C25_LegacyCooldown ==
    \A n \in LegacyNames, u \in Users :
        (Len(executedAt[n][u]) = 2 /\ handlerCommands[n] # <<>>) =>
            executedAt[n][u][2] - executedAt[n][u][1] >= handlerCommands[n][1].cooldown

\* The lists hasPermission is asked about.
RequiredChoices == {<<>>} \cup {<<p>> : p \in LegacyPermissions}

\* The user's records and answers outside guild g are as before the step.
OtherScopesUntouched(u, g) ==
    \A s \in Scopes \ {g} :
        /\ userPermissions'[u][s] = userPermissions[u][s]
        /\ \A r \in RequiredChoices : hasPermission(u, s, r)' = hasPermission(u, s, r)

\* addPermission and setPermissionLevel for a guild leave the other guilds and
\* the global scope alone.
C28_ScopedWrite ==
    \A u \in Users, g \in Guilds :
        /\ \A p \in LegacyPermissions :
              AddPermission(u, p, g) => OtherScopesUntouched(u, g)
        /\ SetPermissionLevel(u, PERMISSION_LEVELS.ADMIN, g) => OtherScopesUntouched(u, g)

\* C28: addPermission(user, p, guild G) and setPermissionLevel(user, level,
\* guild G) change only the user's record for G: hasPermission for any other
\* guild and for the global scope answers as before the call, also when the
\* user had only a global record.
C28_GuildScoping == [][C28_ScopedWrite]_vars

\* When reloadCommand returns, it returned true and the table maps the name to
\* the new command, or it returned false and the table holds what it held when
\* the call was made.
C29_ReturnFrame ==
    lastReload' # lastReload =>
        IF lastReload'.result
        THEN /\ handlerCommands'[lastReload'.name] # <<>>
             /\ handlerCommands'[lastReload'.name] # lastReload'.before
        ELSE handlerCommands'[lastReload'.name] = lastReload'.before

\* C29: reloadCommand is all-or-nothing: after it returns, either it returned
\* true and the table maps the name to the newly constructed command, or it
\* returned false and the table is unchanged, so a command that was resolvable
\* before a failed reload is still resolvable afterwards.
C29_ReloadAllOrNothing == [][C29_ReturnFrame]_vars

====
